---------------------------- MODULE Spec2Model ----------------------------
(***************************************************************************)
(* Model of the ingestion-and-upsert subsystem of energy_analytics:        *)
(*   - the three domain writers (household, weather, grid) and the         *)
(*     streaming flush, acting on the three time-series tables;            *)
(*   - the job tracker and the scheduled domain jobs of the orchestrator;  *)
(*   - the grid source chain (OPSD, ENTSO-E, synthetic generator);         *)
(*   - the grid column reconciler (_process_opsd_data).                    *)
(***************************************************************************)
EXTENDS Integers, Sequences, FiniteSets, TLC

VARIABLES
    tables,        \* domain -> sequence of stored rows (the heap of the table)
    batch_buffer,  \* StreamingIngestionManager.batch_buffer
    clock,         \* the reading of NOW() / datetime.now()
    last,          \* history: the most recent writer call
    ingestion_log, \* metadata.ingestion_log: job id -> record
    completeCalls, \* history: job id -> number of complete_job calls made on it
    pc,            \* position of the scheduler thread in the current job
    cur,           \* the scheduled job being run: locals of the handler
    done,          \* history: the scheduled runs that have finished
    grun,          \* history: the last run of a grid ingestion path
    raw,           \* input table of the grid reconciler
    reconciled,    \* its result
    hh_in,         \* input table of the household validator
    hh_out,        \* its result
    gap_in,        \* stored hours and time of a get_data_gaps call
    gap_out,       \* its result
    up_in,         \* a batch longer than one upsert batch, and the table
    up_out,        \* the result of the writer on it
    is_running,    \* StreamingIngestionManager.is_running
    loops,         \* position of each gathered coroutine
    phase,         \* position of start_streaming
    stop_time,     \* minute of the stop signal
    accepted,      \* records appended to the buffer so far
    opsd_in,       \* what each step of the OPSD fetch does, per URL
    opsd_out,      \* the steps the fetch made and what it returned
    fill_in,       \* the gaps handed to fill_data_gaps and what the fetch meets
    fill_out,      \* its result
    hist_in,       \* range of a weather backfill and what each location's fetch meets
    hist_out,      \* its requests and its count
    minute,        \* minutes since start_streaming, over a long run
    turn,          \* the coroutine that runs next in this minute
    flush_interval,\* attribute of the manager, in minutes
    store_down,    \* whether the store refuses the flushes of this run
    loc_in,        \* what each location meets in one weather run
    loc_out,       \* the weather table and the count after the run
    wv_in,         \* a fetched weather frame with several measurement columns
    wv_out         \* the frame validate_data returns

storeVars == <<tables, batch_buffer, clock, last>>
jobVars == <<ingestion_log, completeCalls>>
schedVars == <<pc, cur, done>>
gridVars == <<grun>>
reconVars == <<raw, reconciled>>
validVars == <<hh_in, hh_out>>
gapVars == <<gap_in, gap_out>>
upsertVars == <<up_in, up_out>>
streamVars == <<is_running, loops, phase, stop_time, accepted>>
opsdVars == <<opsd_in, opsd_out>>
fillVars == <<fill_in, fill_out>>
histVars == <<hist_in, hist_out>>
bufVars == <<minute, turn, flush_interval, store_down>>
locVars == <<loc_in, loc_out>>
wvVars == <<wv_in, wv_out>>
otherVars == <<validVars, gapVars, upsertVars, streamVars, opsdVars, fillVars, histVars, bufVars, locVars, wvVars>>
vars == <<storeVars, jobVars, schedVars, gridVars, reconVars, otherVars>>

(***************************************************************************)
(* Bounds                                                                  *)
(***************************************************************************)
MaxClock == 2      \* readings of the clock, one per operation: 1..MaxClock

(***************************************************************************)
(* Program constants                                                       *)
(***************************************************************************)
HouseholdUpsertBatch == 100
WeatherUpsertBatch == 500
GridUpsertBatch == 200
buffer_size == 100

Domains == {"household", "weather", "grid"}

\* entity part of the compound key of each table
Entities(dom) ==
    CASE dom = "household" -> {"uci_france_001"}
      [] dom = "weather"   -> {"paris_fr_001"}
      [] dom = "grid"      -> {<<"FR", "FR">>}

\* Sample values of the inputs: hours of the time grid, measurement values,
\* and the store call of a writer call that meets a connectivity failure
\* (0: none, 1: the bulk append, 2: the first upsert batch).
Timestamps == {1, 2}
MeasVals == {1, 2}
StreamVals == {2}
FaultPoints == {0, 1, 2}
ProvOf(v) == IF v = 1 THEN "provider 1" ELSE "provider 2"

\* A row of a validated batch: key columns, the columns the upsert statement
\* overwrites (meas) and the other inserted non-key columns (prov:
\* source_file / latitude, longitude, data_provider / source).
BatchRows(dom) ==
    {[timestamp |-> t, entity |-> e, meas |-> v, prov |-> ProvOf(v)] :
        t \in Timestamps, e \in Entities(dom), v \in MeasVals}

RECURSIVE SeqsUpTo(_, _)
SeqsUpTo(S, n) ==
    IF n = 0 THEN {<<>>}
    ELSE LET shorter == SeqsUpTo(S, n - 1)
         IN  shorter \cup {Append(s, x) : s \in {t \in shorter : Len(t) = n - 1}, x \in S}

\* Validated batches: rows in time order, at most one row per hour of the
\* grid on average (a key may occur twice).
Batches(dom) ==
    {b \in SeqsUpTo(BatchRows(dom), Cardinality(Timestamps)) :
        \A i, j \in DOMAIN b : i < j => b[i].timestamp <= b[j].timestamp}

Key(r) == <<r.timestamp, r.entity>>

KeysOf(rows) == {Key(rows[i]) : i \in DOMAIN rows}

DistinctKeys(rows) ==
    \A i, j \in DOMAIN rows : i # j => Key(rows[i]) # Key(rows[j])


(***************************************************************************)
(* The store: a table is the sequence of its rows; the primary key of      *)
(* models.py is enforced by the engine on every plain INSERT.              *)
(***************************************************************************)
StoredRow(r, now) ==
    [timestamp |-> r.timestamp, entity |-> r.entity, meas |-> r.meas,
     prov |-> r.prov, ingestion_timestamp |-> now]

\* The row a table holds before the first call, when it holds one.
SeedRow(dom) ==
    [timestamp |-> 1, entity |-> CHOOSE e \in Entities(dom) : TRUE, meas |-> 1,
     prov |-> ProvOf(1), ingestion_timestamp |-> 0]

\* Mutant: the table is created without its primary key.
ViolatesPrimaryKey_NoConstraint(tbl, rows) == FALSE

\* PRIMARY KEY (timestamp, <entity>): a plain INSERT of rows is rejected when
\* a key is already stored or occurs twice among the new rows.
ViolatesPrimaryKey(tbl, rows) ==
    \/ \E i \in DOMAIN rows : Key(rows[i]) \in KeysOf(tbl)
    \/ ~DistinctKeys(rows)

\* DataFrame.to_sql(if_exists='append'): one transaction, rows appended with
\* ingestion_timestamp DEFAULT NOW().
ToSqlAppend(tbl, rows, now) ==
    tbl \o [i \in DOMAIN rows |-> StoredRow(rows[i], now)]

\* Mutant: the conflict clause never matches, every parameter set is stored
\* as a new row.
UpsertRow_AlwaysInsert(tbl, r, now) == Append(tbl, StoredRow(r, now))

\* INSERT ... ON CONFLICT (key) DO UPDATE SET <measurement columns> =
\* EXCLUDED.<...>, ingestion_timestamp = NOW(), for one parameter set.
UpsertRow(tbl, r, now) ==
    IF Key(r) \in KeysOf(tbl)
    THEN [i \in DOMAIN tbl |->
            IF Key(tbl[i]) = Key(r)
            THEN [tbl[i] EXCEPT !.meas = r.meas, !.ingestion_timestamp = now]
            ELSE tbl[i]]
    ELSE Append(tbl, StoredRow(r, now))

\* DatabaseConnection.execute_many: every parameter set of data is executed
\* in order inside one transaction.
\* (The test on Len(tbl) is never true: with it TLC evaluates the table at
\* every step instead of building one nested expression for the whole run.)
RECURSIVE execute_many(_, _, _)
execute_many(tbl, data, now) ==
    IF data = <<>> \/ Len(tbl) < 0 THEN tbl
    ELSE execute_many(UpsertRow(tbl, Head(data), now), Tail(data), now)

UpsertBatchSize(dom) ==
    CASE dom = "household" -> HouseholdUpsertBatch
      [] dom = "weather"   -> WeatherUpsertBatch
      [] dom = "grid"      -> GridUpsertBatch

Min(a, b) == IF a <= b THEN a ELSE b

\* The upsert loop of _upsert_weather_data / _upsert_grid_data /
\* _upsert_household_data_manually from record index i (1-based) on.
\* call is the number of the store call about to be made in this writer
\* call, fault the number of the store call that raises (0: none).  Each
\* batch is committed by its own execute_many; an exception leaves the loop
\* and the writer returns 0.
RECURSIVE UpsertLoop(_, _, _, _, _, _, _)
UpsertLoop(tbl, records, i, bs, now, call, fault) ==
    IF i > Len(records) THEN [tbl |-> tbl, ret |-> Len(records), failed |-> FALSE]
    ELSE IF call = fault THEN [tbl |-> tbl, ret |-> 0, failed |-> TRUE]
    ELSE UpsertLoop(execute_many(tbl, SubSeq(records, i, Min(i + bs - 1, Len(records))), now),
                    records, i + bs, bs, now, call + 1, fault)

UpsertData(dom, tbl, df, now, fault) ==
    UpsertLoop(tbl, df, 1, UpsertBatchSize(dom), now, 2, fault)

\* _insert_weather_data / _insert_grid_data / _upsert_household_data:
\* optimistic bulk append (store call 1), row-level upsert when the engine
\* reports a duplicate key, 0 on any other error.
InsertData(dom, tbl, df, now, fault) ==
    IF df = <<>> THEN [tbl |-> tbl, ret |-> 0, failed |-> FALSE]
    ELSE IF fault = 1 THEN [tbl |-> tbl, ret |-> 0, failed |-> TRUE]
    ELSE IF ViolatesPrimaryKey(tbl, df) THEN UpsertData(dom, tbl, df, now, fault)
    ELSE [tbl |-> ToSqlAppend(tbl, df, now), ret |-> Len(df), failed |-> FALSE]

NoCall ==
    [kind |-> "none", dom |-> "none", batch |-> <<>>, failed |-> FALSE,
     before |-> <<>>, now |-> 0, ret |-> 0, repeat |-> FALSE]

\* One writer call on a validated batch (reached from the scheduled batch,
\* the historical backfill and the gap fill of the domain): the table and
\* the history record after it.  repeat records that the call before it was
\* the same call and neither met a store failure.
WriterCall(dom, df, fault) ==
    LET res == InsertData(dom, tables[dom], df, clock, fault)
    IN  [tables |-> [tables EXCEPT ![dom] = res.tbl],
         last |-> [kind |-> "write", dom |-> dom, batch |-> df, failed |-> res.failed,
                   before |-> tables[dom], now |-> clock, ret |-> res.ret,
                   repeat |-> /\ last.kind = "write" /\ last.dom = dom
                              /\ last.batch = df /\ ~last.failed /\ ~res.failed]]

\* WeatherIngestionPipeline._insert_weather_data
InsertWeatherData ==
    \E df \in Batches("weather"), fault \in FaultPoints :
        /\ clock <= MaxClock
        /\ tables' = WriterCall("weather", df, fault).tables
        /\ last' = WriterCall("weather", df, fault).last
        /\ clock' = clock + 1
        /\ UNCHANGED <<batch_buffer, jobVars, schedVars, gridVars, reconVars, otherVars>>

\* GridIngestionPipeline._insert_grid_data
InsertGridData ==
    \E df \in Batches("grid"), fault \in FaultPoints :
        /\ clock <= MaxClock
        /\ tables' = WriterCall("grid", df, fault).tables
        /\ last' = WriterCall("grid", df, fault).last
        /\ clock' = clock + 1
        /\ UNCHANGED <<batch_buffer, jobVars, schedVars, gridVars, reconVars, otherVars>>

\* HouseholdIngestionPipeline._upsert_household_data
UpsertHouseholdData ==
    \E df \in Batches("household"), fault \in FaultPoints :
        /\ clock <= MaxClock
        /\ tables' = WriterCall("household", df, fault).tables
        /\ last' = WriterCall("household", df, fault).last
        /\ clock' = clock + 1
        /\ UNCHANGED <<batch_buffer, jobVars, schedVars, gridVars, reconVars, otherVars>>

(***************************************************************************)
(* Streaming mode: the domain loops append to the shared buffer, a flush   *)
(* hands the records of each domain to a plain append.                     *)
(***************************************************************************)
WeatherStreamLocations == <<"paris_fr_001", "berlin_de_001", "madrid_es_001">>
GridStreamCountries == <<"FR", "DE", "ES">>

StreamRecord(dom, e, v, now) ==
    [type |-> dom,
     record |-> [timestamp |-> now, entity |-> e, meas |-> v, prov |-> "Streaming Simulator"]]

RecordsOfType(buf, dom) ==
    LET sel == SelectSeq(buf, LAMBDA b : b.type = dom)
    IN  [i \in DOMAIN sel |-> sel[i].record]

\* _insert_streaming_data: to_sql append without upsert; any error (store
\* unreachable, duplicate key) is logged and 0 is returned.
InsertStreamingData(tbl, df, now, down) ==
    IF down \/ ViolatesPrimaryKey(tbl, df)
    THEN [tbl |-> tbl, ret |-> 0]
    ELSE [tbl |-> ToSqlAppend(tbl, df, now), ret |-> Len(df)]

\* _flush_buffer: group by type, insert each non-empty group, clear the
\* buffer.  Returns the tables and the buffer after the flush.
FlushBuffer(tbls, buf, now, down) ==
    IF buf = <<>> THEN [tables |-> tbls, buffer |-> buf]
    ELSE [tables |-> [d \in Domains |->
                        IF RecordsOfType(buf, d) = <<>> THEN tbls[d]
                        ELSE InsertStreamingData(tbls[d], RecordsOfType(buf, d), now, down).tbl],
          buffer |-> <<>>]

\* One pass of the loop body of _stream_weather_data over the locations
\* from index i on: append, then flush when the buffer has reached
\* buffer_size.
RECURSIVE StreamWeatherFrom(_, _, _, _, _, _)
StreamWeatherFrom(i, vals, tbls, buf, now, down) ==
    IF i > Len(WeatherStreamLocations) THEN [tables |-> tbls, buffer |-> buf]
    ELSE LET appended == Append(buf, StreamRecord("weather", WeatherStreamLocations[i], vals[i], now))
             st == IF Len(appended) >= buffer_size
                   THEN FlushBuffer(tbls, appended, now, down)
                   ELSE [tables |-> tbls, buffer |-> appended]
         IN  StreamWeatherFrom(i + 1, vals, st.tables, st.buffer, now, down)

StreamWeatherData ==
    \E vals \in [DOMAIN WeatherStreamLocations -> StreamVals], down \in BOOLEAN :
        LET st == StreamWeatherFrom(1, vals, tables, batch_buffer, clock, down)
        IN  /\ clock <= MaxClock
            /\ tables' = st.tables
            /\ batch_buffer' = st.buffer
            /\ clock' = clock + 1
            /\ last' = NoCall
            /\ UNCHANGED <<jobVars, schedVars, gridVars, reconVars, otherVars>>

\* One pass of the loop body of _stream_grid_data: one record per country,
\* no size check.
StreamGridData ==
    \E vals \in [DOMAIN GridStreamCountries -> StreamVals] :
        /\ clock <= MaxClock
        /\ batch_buffer' = batch_buffer \o
              [i \in DOMAIN GridStreamCountries |->
                  StreamRecord("grid", <<GridStreamCountries[i], GridStreamCountries[i]>>, vals[i], clock)]
        /\ clock' = clock + 1
        /\ last' = NoCall
        /\ UNCHANGED <<tables, jobVars, schedVars, gridVars, reconVars, otherVars>>

\* One pass of the loop body of _stream_household_data.
StreamHouseholdData ==
    \E v \in StreamVals :
        /\ clock <= MaxClock
        /\ batch_buffer' = Append(batch_buffer, StreamRecord("household", "uci_france_001", v, clock))
        /\ clock' = clock + 1
        /\ last' = NoCall
        /\ UNCHANGED <<tables, jobVars, schedVars, gridVars, reconVars, otherVars>>

\* _flush_buffer run by _flush_buffer_periodically, stop_streaming or the
\* final flush of start_streaming.
Flush ==
    \E down \in BOOLEAN :
        LET st == FlushBuffer(tables, batch_buffer, clock, down)
        IN  /\ clock <= MaxClock
            /\ batch_buffer # <<>>
            /\ tables' = st.tables
            /\ batch_buffer' = st.buffer
            /\ clock' = clock + 1
            /\ last' = NoCall
            /\ UNCHANGED <<jobVars, schedVars, gridVars, reconVars, otherVars>>

(***************************************************************************)
(* Job tracker: monitoring/job_tracking.py                                 *)
(***************************************************************************)
MaxJobSteps == 4      \* tracker calls per run of the model

NullTime == -1        \* SQL NULL in a time or number column
NullText == "NULL"    \* SQL NULL in a text column; Python None for a text
NoneArg == -1         \* Python None for records_inserted

\* (job_name, data_source) of the three scheduled jobs.
JobNames ==
    [household |-> <<"batch_household_processing", "UCI Household Files">>,
     weather   |-> <<"batch_weather_ingestion", "Open-Meteo API">>,
     grid      |-> <<"batch_grid_ingestion", "Open Power System Data">>]

\* Arguments a caller can pass to complete_job: status is any string.
StatusArgs == {"completed", "failed", "running"}
ProcessedArgs == {1}
InsertedArgs == {0, NoneArg}
ErrorArgs == {NullText, "boom"}

\* INSERT ... VALUES (..., 'running') RETURNING id; -1 when the statement fails.
start_job(log, job_name, data_source, now, down) ==
    IF down
    THEN [log |-> log, job_id |-> -1]
    ELSE [log |-> Append(log,
                     [job_name |-> job_name, data_source |-> data_source,
                      start_time |-> now, end_time |-> NullTime,
                      status |-> "running",
                      records_processed |-> 0, records_inserted |-> 0,
                      error_message |-> NullText,
                      processing_duration_seconds |-> NullTime]),
          job_id |-> Len(log) + 1]

\* UPDATE ... WHERE id = :job_id; a failure of the statement is logged and
\* swallowed, an unknown id updates no row.
complete_job(log, job_id, status, records_processed, records_inserted, error_message, now, down) ==
    IF down \/ job_id \notin DOMAIN log
    THEN log
    ELSE [log EXCEPT ![job_id] =
            [@ EXCEPT !.end_time = now,
                      !.status = status,
                      !.records_processed = records_processed,
                      !.records_inserted =
                          IF records_inserted = NoneArg THEN records_processed
                          ELSE records_inserted,
                      !.error_message = error_message,
                      !.processing_duration_seconds = now - log[job_id].start_time]]

\* A caller starts a job.
StartJob ==
    \E dom \in Domains, down \in BOOLEAN :
        /\ clock <= MaxJobSteps
        /\ ingestion_log' =
              start_job(ingestion_log, JobNames[dom][1], JobNames[dom][2],
                        clock, down).log
        /\ completeCalls' =
              IF down THEN completeCalls ELSE Append(completeCalls, 0)
        /\ clock' = clock + 1
        /\ UNCHANGED <<tables, batch_buffer, last, schedVars, gridVars, reconVars, otherVars>>

\* A caller completes a job, with any arguments the signature accepts.
CompleteJob ==
    \E job_id \in DOMAIN ingestion_log, status \in StatusArgs,
       rp \in ProcessedArgs, ri \in InsertedArgs,
       err \in ErrorArgs, down \in BOOLEAN :
        /\ clock <= MaxJobSteps
        /\ ingestion_log' =
              complete_job(ingestion_log, job_id, status, rp, ri, err, clock, down)
        /\ completeCalls' = [completeCalls EXCEPT ![job_id] = @ + 1]
        /\ clock' = clock + 1
        /\ UNCHANGED <<tables, batch_buffer, last, schedVars, gridVars, reconVars, otherVars>>

InitJob ==
    /\ ingestion_log = <<>>
    /\ completeCalls = <<>>

NextJob ==
    \/ StartJob
    \/ CompleteJob

(***************************************************************************)
(* Grid source chain: ingestion/grid.py                                    *)
(***************************************************************************)
SyntheticHours == 2    \* hourly steps in the one-day window of the batch path

GridColumns ==
    {"timestamp", "country_code", "region_code", "load_actual_mw",
     "load_forecast_mw", "solar_generation_actual_mw",
     "wind_onshore_generation_actual_mw", "wind_offshore_generation_actual_mw",
     "hydro_generation_actual_mw", "nuclear_generation_actual_mw",
     "fossil_generation_actual_mw", "other_renewable_generation_mw",
     "total_generation_mw", "net_import_export_mw",
     "price_day_ahead_eur_mwh", "source"}

\* validate_data's required_columns
GridValidatedColumns ==
    {"timestamp", "country_code", "region_code", "load_actual_mw",
     "wind_offshore_generation_actual_mw"}

SyntheticCountries == <<"FR", "DE", "ES">>

\* A fetch result: None, or a table with its columns and the tier it is from.
NoneDf == [rows |-> <<>>, cols |-> {}, src |-> "None"]
EmptyDf == [rows |-> <<>>, cols |-> {}, src |-> "empty"]
Unavailable(df) == df.src = "None" \/ df.rows = <<>>

\* What _fetch_opsd_data can return: None when every URL fails, an empty
\* table when no supported country is found, or the reconciled table.
OpsdResults ==
    {NoneDf, EmptyDf} \cup
    {[rows |-> [i \in DOMAIN b |-> [b[i] EXCEPT !.prov = "Open Power System Data"]],
      cols |-> GridColumns, src |-> "opsd"] :
        b \in {x \in Batches("grid") :
                  x # <<>> /\ DistinctKeys(x) /\ \A i \in DOMAIN x : x[i].meas = 1}}

\* _fetch_entsoe_data: no API token is configured, the fetch returns None.
fetch_entsoe_data == NoneDf

\* _generate_sample_grid_data: one row per hour in [start_time, end_time)
\* and per country, all columns filled; v stands for the random draws.
RECURSIVE SampleRows(_, _, _)
SampleRows(current_time, end_time, v) ==
    IF ~(current_time < end_time) THEN <<>>
    ELSE [i \in DOMAIN SyntheticCountries |->
             [timestamp |-> current_time,
              entity |-> <<SyntheticCountries[i], SyntheticCountries[i]>>,
              meas |-> v, prov |-> "Synthetic Generator"]]
         \o SampleRows(current_time + 1, end_time, v)

generate_sample_grid_data(start_time, end_time, v) ==
    LET rows == SampleRows(start_time, end_time, v)
    IN  [rows |-> rows, cols |-> IF rows = <<>> THEN {} ELSE GridColumns,
         src |-> "synthetic"]

\* validate_data: adds the required columns that are missing, drops rows
\* without timestamp, country or region.
NaT == -1000
GridValidate(df) ==
    IF df.rows = <<>> THEN df
    ELSE [df EXCEPT !.cols = @ \cup GridValidatedColumns,
                    !.rows = SelectSeq(@, LAMBDA r : r.timestamp # NaT)]

NoGridRun ==
    [path |-> "none", attempts |-> <<>>, opsd |-> NoneDf, entsoe |-> NoneDf,
     handed |-> NoneDf, ret |-> 0, failed |-> FALSE]

\* ingest_batch_data up to the table it hands to validation.
IngestBatchSources_SkipSecondary(opsd, entsoe, now, v) ==
    IF ~Unavailable(opsd)
    THEN [attempts |-> <<"opsd">>, handed |-> opsd]
    ELSE [attempts |-> <<"opsd", "synthetic">>,
          handed |-> generate_sample_grid_data(now - SyntheticHours, now, v)]

IngestBatchSources(opsd, entsoe, now, v) ==
    IF ~Unavailable(opsd)
    THEN [attempts |-> <<"opsd">>, handed |-> opsd]
    ELSE IF ~Unavailable(entsoe)
    THEN [attempts |-> <<"opsd", "entsoe">>, handed |-> entsoe]
    ELSE [attempts |-> <<"opsd", "entsoe", "synthetic">>,
          handed |-> generate_sample_grid_data(now - SyntheticHours, now, v)]

\* GridIngestionPipeline.ingest_batch_data: the table after it and the record
\* of the run.
ingest_batch_data(tbl, opsd, now, v, fault) ==
    LET entsoe == IF Unavailable(opsd) THEN fetch_entsoe_data ELSE NoneDf
        src == IngestBatchSources(opsd, entsoe, now, v)
        res == IF src.handed.rows # <<>>
               THEN InsertData("grid", tbl, GridValidate(src.handed).rows, now, fault)
               ELSE [tbl |-> tbl, ret |-> 0, failed |-> FALSE]
    IN  [tbl |-> res.tbl,
         run |-> [path |-> "batch", attempts |-> src.attempts, opsd |-> opsd,
                  entsoe |-> entsoe, handed |-> src.handed, ret |-> res.ret,
                  failed |-> res.failed]]

\* GridIngestionPipeline.process_historical_data
FilterRange(df, start_date, end_date) ==
    [df EXCEPT !.rows = SelectSeq(@, LAMBDA r : r.timestamp >= start_date
                                              /\ r.timestamp <= end_date)]

process_historical_data(tbl, opsd, start_date, end_date, now, v, fault) ==
    LET filtered == IF Unavailable(opsd) THEN opsd
                    ELSE FilterRange(opsd, start_date, end_date)
        handed == IF filtered.rows # <<>> THEN filtered
                  ELSE generate_sample_grid_data(start_date, end_date, v)
        attempts == IF filtered.rows # <<>> THEN <<"opsd">>
                    ELSE <<"opsd", "synthetic">>
        res == IF handed.rows # <<>>
               THEN InsertData("grid", tbl, GridValidate(handed).rows, now, fault)
               ELSE [tbl |-> tbl, ret |-> 0, failed |-> FALSE]
    IN  [tbl |-> res.tbl,
         run |-> [path |-> "historical", attempts |-> attempts, opsd |-> opsd,
                  entsoe |-> NoneDf, handed |-> handed, ret |-> res.ret,
                  failed |-> res.failed]]

HistoricalDates == {0, 1, 2, 3}

GridIngestBatchData ==
    \E opsd \in OpsdResults, v \in StreamVals, fault \in FaultPoints :
        /\ clock <= MaxClock
        /\ tables' = [tables EXCEPT
                        !["grid"] = ingest_batch_data(@, opsd, clock, v, fault).tbl]
        /\ grun' = ingest_batch_data(tables["grid"], opsd, clock, v, fault).run
        /\ clock' = clock + 1
        /\ last' = NoCall
        /\ UNCHANGED <<batch_buffer, jobVars, schedVars, reconVars, otherVars>>

GridProcessHistoricalData ==
    \E opsd \in OpsdResults, start_date \in HistoricalDates,
       end_date \in HistoricalDates, v \in StreamVals, fault \in FaultPoints :
        /\ clock <= MaxClock
        /\ tables' = [tables EXCEPT
                        !["grid"] = process_historical_data(@, opsd, start_date,
                                        end_date, clock, v, fault).tbl]
        /\ grun' = process_historical_data(tables["grid"], opsd, start_date,
                                           end_date, clock, v, fault).run
        /\ clock' = clock + 1
        /\ last' = NoCall
        /\ UNCHANGED <<batch_buffer, jobVars, schedVars, reconVars, otherVars>>

InitGrid ==
    /\ grun = NoGridRun

NextGrid ==
    \/ GridIngestBatchData
    \/ GridProcessHistoricalData

(***************************************************************************)
(* Scheduled domain jobs: ingestion/base.py                                *)
(***************************************************************************)
MaxRuns == 2          \* scheduled runs per run of the model

\* WeatherIngestionPipeline.ingest_batch_data: one fetch, validation and
\* write per configured location; a location whose fetch yields nothing is
\* skipped, every exception is caught inside the loop.
RECURSIVE WeatherLocationsFrom(_, _, _, _, _)
WeatherLocationsFrom(i, fetched, tbl, now, down) ==
    IF i > Len(WeatherStreamLocations)
    THEN [tbl |-> tbl, ret |-> 0, failed |-> FALSE]
    ELSE LET df == IF fetched[i]
                   THEN <<[timestamp |-> 1, entity |-> WeatherStreamLocations[i],
                           meas |-> 1, prov |-> "Open-Meteo"]>>
                   ELSE <<>>
             res == InsertData("weather", tbl, df, now, IF down THEN 1 ELSE 0)
             rest == WeatherLocationsFrom(i + 1, fetched, res.tbl, now, down)
         IN  [tbl |-> rest.tbl, ret |-> res.ret + rest.ret,
              failed |-> res.failed \/ rest.failed]

weather_ingest_batch_data(tbl, fetched, now, down) ==
    LET res == WeatherLocationsFrom(1, fetched, tbl, now, down)
    IN  [tbl |-> res.tbl, ret |-> res.ret, failed |-> res.failed,
         raised |-> FALSE, msg |-> NullText]

\* HouseholdIngestionPipeline.process_batch_files: creating the archive
\* directory is outside every try block and can raise; the files found (or
\* the download) are validated and written.
HouseholdFiles ==
    {b \in Batches("household") :
        DistinctKeys(b) /\ \A i \in DOMAIN b : b[i].meas = 1}

process_batch_files(tbl, mkdirFails, df, now, down) ==
    IF mkdirFails
    THEN [tbl |-> tbl, ret |-> 0, failed |-> FALSE,
          raised |-> TRUE, msg |-> "[Errno 13] Permission denied: 'data/archive'"]
    ELSE LET res == InsertData("household", tbl, df, now, IF down THEN 1 ELSE 0)
         IN  [tbl |-> res.tbl, ret |-> res.ret, failed |-> res.failed,
              raised |-> FALSE, msg |-> NullText]

grid_ingest_batch_data(tbl, opsd, now, down) ==
    LET res == ingest_batch_data(tbl, opsd, now, 2, IF down THEN 1 ELSE 0)
    IN  [tbl |-> res.tbl, ret |-> res.run.ret, failed |-> res.run.failed,
         raised |-> FALSE, msg |-> NullText]

\* The pipeline call of a domain job, over the inputs the run can meet.
PipelineResults(dom, tbl, now) ==
    CASE dom = "weather" ->
            {weather_ingest_batch_data(tbl, fetched, now, down) :
                fetched \in [DOMAIN WeatherStreamLocations -> BOOLEAN],
                down \in BOOLEAN}
      [] dom = "grid" ->
            {grid_ingest_batch_data(tbl, opsd, now, down) :
                opsd \in OpsdResults, down \in BOOLEAN}
      [] dom = "household" ->
            {process_batch_files(tbl, mkdirFails, df, now, down) :
                mkdirFails \in BOOLEAN, df \in HouseholdFiles, down \in BOOLEAN}

NoRun ==
    [dom |-> "none", job_id |-> -1, events |-> <<>>, raised |-> FALSE,
     records |-> 0, msg |-> NullText, writeFailed |-> FALSE]

\* Mutant: a due job is started while the one before it is still running.
SchedulerFree_Threaded == pc \in {"idle", "started", "ran"}

\* schedule.run_pending() calls the due jobs one after the other in the
\* thread of run_scheduler: a job is called when the one before has returned.
SchedulerFree == pc = "idle"

\* job_id = self.job_tracker.start_job(...)
SchedStartJob ==
    \E dom \in Domains, down \in BOOLEAN :
        LET r == start_job(ingestion_log, JobNames[dom][1], JobNames[dom][2],
                           clock, down)
        IN  /\ SchedulerFree
            /\ Len(done) < MaxRuns
            /\ ingestion_log' = r.log
            /\ completeCalls' =
                  IF down THEN completeCalls ELSE Append(completeCalls, 0)
            /\ cur' = [NoRun EXCEPT !.dom = dom, !.job_id = r.job_id,
                                    !.events = <<"start_job">>]
            /\ pc' = "started"
            /\ clock' = clock + 1
            /\ UNCHANGED <<tables, batch_buffer, last, done, gridVars, reconVars, otherVars>>

\* try: records = self.<domain>_pipeline.<batch entry point>()
SchedRunPipeline ==
    /\ pc = "started"
    /\ \E res \in PipelineResults(cur.dom, tables[cur.dom], clock) :
          /\ tables' = [tables EXCEPT ![cur.dom] = res.tbl]
          /\ cur' = [cur EXCEPT !.events = Append(@, "pipeline"),
                                !.raised = res.raised,
                                !.records = res.ret,
                                !.msg = res.msg,
                                !.writeFailed = res.failed]
    /\ pc' = "ran"
    /\ clock' = clock + 1
    /\ UNCHANGED <<batch_buffer, last, jobVars, done, gridVars, reconVars, otherVars>>

\* complete_job(job_id, "completed", records, records), or in the except
\* branch complete_job(job_id, "failed", 0, 0, str(e))
SchedCompleteJob ==
    \E down \in BOOLEAN :
        /\ pc = "ran"
        /\ ingestion_log' =
              IF cur.raised
              THEN complete_job(ingestion_log, cur.job_id, "failed", 0, 0,
                                cur.msg, clock, down)
              ELSE complete_job(ingestion_log, cur.job_id, "completed",
                                cur.records, cur.records, NullText, clock, down)
        /\ completeCalls' =
              IF cur.job_id \in DOMAIN completeCalls
              THEN [completeCalls EXCEPT ![cur.job_id] = @ + 1]
              ELSE completeCalls
        /\ done' = Append(done, [cur EXCEPT !.events = Append(@, "complete_job")])
        /\ cur' = NoRun
        /\ pc' = "idle"
        /\ clock' = clock + 1
        /\ UNCHANGED <<tables, batch_buffer, last, gridVars, reconVars, otherVars>>

InitSched ==
    /\ pc = "idle"
    /\ cur = NoRun
    /\ done = <<>>

NextSched ==
    \/ SchedStartJob
    \/ SchedRunPipeline
    \/ SchedCompleteJob

(***************************************************************************)
(* Grid reconciler: GridIngestionPipeline._process_opsd_data               *)
(***************************************************************************)
UpperLetters == "ABCDEFGHIJKLMNOPQRSTUVWXYZ"
LowerLetters == "abcdefghijklmnopqrstuvwxyz"

\* str.lower() and str.upper(), character by character
MapChar(c, from, to) ==
    IF \E i \in 1..Len(from) : SubSeq(from, i, i) = c
    THEN LET i == CHOOSE i \in 1..Len(from) : SubSeq(from, i, i) = c
         IN  SubSeq(to, i, i)
    ELSE c

RECURSIVE MapChars(_, _, _)
MapChars(s, from, to) ==
    IF Len(s) = 0 THEN ""
    ELSE MapChar(SubSeq(s, 1, 1), from, to) \o MapChars(SubSeq(s, 2, Len(s)), from, to)

Lower(s) == MapChars(s, UpperLetters, LowerLetters)
Upper(s) == MapChars(s, LowerLetters, UpperLetters)

\* sub in s
Contains(s, sub) ==
    \E i \in 1..(Len(s) - Len(sub) + 1) : SubSeq(s, i, i + Len(sub) - 1) = sub

StartsWith(s, prefix) ==
    Len(prefix) <= Len(s) /\ SubSeq(s, 1, Len(prefix)) = prefix

\* s.split('_')
RECURSIVE Split(_)
Split(s) ==
    IF ~Contains(s, "_") THEN <<s>>
    ELSE LET i == CHOOSE i \in 1..Len(s) :
                      /\ SubSeq(s, i, i) = "_"
                      /\ \A j \in 1..(i - 1) : SubSeq(s, j, j) # "_"
         IN  <<SubSeq(s, 1, i - 1)>> \o Split(SubSeq(s, i + 1, Len(s)))

InSeq(x, s) == \E i \in DOMAIN s : s[i] = x
Without(s, x) == SelectSeq(s, LAMBDA y : y # x)

timestamp_cols == <<"timestamp", "utc_timestamp", "Time (UTC)">>
KnownCountries == {"FR", "DE", "ES", "IT", "NL", "BE", "AT", "CH", "PL"}

\* The column order of data after the timestamp handling; <<>> when the table
\* has no timestamp column and no datetime index.
ColumnsAfterTimestamp(data) ==
    IF \E i \in DOMAIN timestamp_cols : InSeq(timestamp_cols[i], data.cols)
    THEN LET i == CHOOSE i \in DOMAIN timestamp_cols :
                      /\ InSeq(timestamp_cols[i], data.cols)
                      /\ \A j \in 1..(i - 1) : ~InSeq(timestamp_cols[j], data.cols)
         IN  IF timestamp_cols[i] = "timestamp" THEN data.cols
             ELSE Append(Without(data.cols, timestamp_cols[i]), "timestamp")
    ELSE IF data.datetime_index THEN Append(data.cols, "timestamp")
    ELSE <<>>

CountriesOf(cols) ==
    {Upper(Split(cols[i])[1]) : i \in {j \in DOMAIN cols :
        /\ Contains(cols[j], "_")
        /\ Len(Split(cols[j])[1]) = 2
        /\ Upper(Split(cols[j])[1]) \in KnownCountries}}

column_mappings(country) ==
    <<<<Lower(country) \o "_load_actual_entsoe_transparency", "load_actual_mw">>,
      <<Lower(country) \o "_load_forecast_entsoe_transparency", "load_forecast_mw">>,
      <<Lower(country) \o "_solar_generation_actual", "solar_generation_actual_mw">>,
      <<Lower(country) \o "_wind_onshore_generation_actual", "wind_onshore_generation_actual_mw">>,
      <<Lower(country) \o "_wind_offshore_generation_actual", "wind_offshore_generation_actual_mw">>,
      <<Lower(country) \o "_hydro_generation_actual", "hydro_generation_actual_mw">>,
      <<Lower(country) \o "_nuclear_generation_actual", "nuclear_generation_actual_mw">>,
      <<Lower(country) \o "_fossil_gas_generation_actual", "fossil_generation_actual_mw">>,
      <<Lower(country) \o "_fossil_coal_generation_actual", "fossil_coal_generation_actual_mw">>,
      <<Lower(country) \o "_price_day_ahead", "price_day_ahead_eur_mwh">>>>

NaN == -999           \* a null cell of a numeric column

required_cols ==
    <<"load_actual_mw", "load_forecast_mw", "solar_generation_actual_mw",
      "wind_onshore_generation_actual_mw", "wind_offshore_generation_actual_mw",
      "hydro_generation_actual_mw", "nuclear_generation_actual_mw",
      "fossil_generation_actual_mw", "other_renewable_generation_mw",
      "total_generation_mw", "net_import_export_mw", "price_day_ahead_eur_mwh">>

generation_cols ==
    <<"solar_generation_actual_mw", "wind_onshore_generation_actual_mw",
      "wind_offshore_generation_actual_mw", "hydro_generation_actual_mw",
      "nuclear_generation_actual_mw", "fossil_generation_actual_mw",
      "other_renewable_generation_mw">>

\* country_data[our_col] = value
SetCol(cd, col, v) == (col :> v) @@ cd

\* The fuzzy test of one table column against one mapping key.
FuzzyMatch(country, col, opsd_col) ==
    LET col_lower == Lower(col)
        key_words == Split(opsd_col)
    IN  /\ Contains(col_lower, Lower(country))
        /\ \E k \in 2..Len(key_words) : Contains(col_lower, key_words[k])

\* Mutant: the fuzzy test is tried before the exact name.
MatchedColumn_FuzzyFirst(country, cols, opsd_col) ==
    LET fuzzy == {j \in DOMAIN cols : FuzzyMatch(country, cols[j], opsd_col)}
    IN  IF fuzzy # {} THEN cols[CHOOSE j \in fuzzy : \A k \in fuzzy : j <= k]
        ELSE IF InSeq(opsd_col, cols) THEN opsd_col
        ELSE "none"

\* The table column one mapping key takes its values from: the column of
\* that name, else the first table column that passes the fuzzy test.
MatchedColumn(country, cols, opsd_col) ==
    LET fuzzy == {j \in DOMAIN cols : FuzzyMatch(country, cols[j], opsd_col)}
    IN  IF InSeq(opsd_col, cols) THEN opsd_col
        ELSE IF fuzzy # {} THEN cols[CHOOSE j \in fuzzy : \A k \in fuzzy : j <= k]
        ELSE "none"

\* The loop over column_mappings from entry i on.
RECURSIVE MapColumns(_, _, _, _, _, _)
MapColumns(i, country, cols, row, cd, mapped_any) ==
    IF i > Len(column_mappings(country)) THEN [cd |-> cd, mapped_any |-> mapped_any]
    ELSE LET opsd_col == column_mappings(country)[i][1]
             our_col == column_mappings(country)[i][2]
             col == MatchedColumn(country, cols, opsd_col)
         IN  IF col # "none"
             THEN MapColumns(i + 1, country, cols, row, SetCol(cd, our_col, row[col]), TRUE)
             ELSE MapColumns(i + 1, country, cols, row, cd, mapped_any)

\* The flexible mapping, entered only when nothing was mapped.
FlexibleTarget(country, col) ==
    IF ~StartsWith(Upper(col), Upper(country) \o "_") THEN "none"
    ELSE IF Contains(Lower(col), "load") /\ Contains(Lower(col), "actual")
    THEN "load_actual_mw"
    ELSE IF Contains(Lower(col), "solar") THEN "solar_generation_actual_mw"
    ELSE IF Contains(Lower(col), "wind") /\ Contains(Lower(col), "onshore")
    THEN "wind_onshore_generation_actual_mw"
    ELSE IF Contains(Lower(col), "wind") /\ Contains(Lower(col), "offshore")
    THEN "wind_offshore_generation_actual_mw"
    ELSE IF Contains(Lower(col), "hydro") THEN "hydro_generation_actual_mw"
    ELSE IF Contains(Lower(col), "nuclear") THEN "nuclear_generation_actual_mw"
    ELSE IF Contains(Lower(col), "price") THEN "price_day_ahead_eur_mwh"
    ELSE "none"

RECURSIVE FlexibleMap(_, _, _, _, _, _)
FlexibleMap(j, country, cols, row, cd, mapped_any) ==
    IF j > Len(cols) THEN [cd |-> cd, mapped_any |-> mapped_any]
    ELSE IF FlexibleTarget(country, cols[j]) = "none"
    THEN FlexibleMap(j + 1, country, cols, row, cd, mapped_any)
    ELSE FlexibleMap(j + 1, country, cols, row,
                     SetCol(cd, FlexibleTarget(country, cols[j]), row[cols[j]]), TRUE)

RECURSIVE AddDefaults(_, _)
AddDefaults(i, cd) ==
    IF i > Len(required_cols) THEN cd
    ELSE AddDefaults(i + 1, IF required_cols[i] \in DOMAIN cd THEN cd
                            ELSE SetCol(cd, required_cols[i], 0))

\* DataFrame.sum(axis=1) over the columns names: null cells are skipped.
RECURSIVE SumCols(_, _, _)
SumCols(i, names, cd) ==
    IF i > Len(names) THEN 0
    ELSE (IF names[i] \in DOMAIN cd /\ cd[names[i]] # NaN THEN cd[names[i]] ELSE 0)
         + SumCols(i + 1, names, cd)

\* Mutant: only the solar column is counted.
TotalGeneration_SolarOnly(cd) == SumCols(1, <<"solar_generation_actual_mw">>, cd)

\* country_data[available_gen_cols].sum(axis=1)
TotalGeneration(cd) == SumCols(1, generation_cols, cd)

\* A difference of two cells is null when one of them is.
Minus(a, b) == IF a = NaN \/ b = NaN THEN NaN ELSE a - b

\* The rows of one country: unmapped when no column could be mapped.
CountryData(country, cols, row) ==
    LET m1 == MapColumns(1, country, cols, row, <<>>, FALSE)
        m2 == IF m1.mapped_any THEN m1
              ELSE FlexibleMap(1, country, cols, row, m1.cd, FALSE)
        withDefaults == AddDefaults(1, m2.cd)
        withTotal == SetCol(withDefaults, "total_generation_mw",
                            TotalGeneration(withDefaults))
        withNet == SetCol(withTotal, "net_import_export_mw",
                          Minus(withTotal["total_generation_mw"], withTotal["load_actual_mw"]))
    IN  [mapped |-> m2.mapped_any, country_code |-> country,
         region_code |-> country, source |-> "Open Power System Data",
         vals |-> IF m2.mapped_any THEN withNet ELSE <<>>]

\* _process_opsd_data on a one-row table: the processed row of each country.
process_opsd_data(data) ==
    LET cols == ColumnsAfterTimestamp(data)
    IN  IF cols = <<>> THEN {}
        ELSE {cdata \in {CountryData(c, cols, data.row) : c \in CountriesOf(cols)} :
                 cdata.mapped}

\* Input tables: a column order and one row of values.
RawColumnPool ==
    {"timestamp", "utc_timestamp", "fr_load_actual_entsoe_transparency",
     "fr_solar_generation_actual", "DE_price_day_ahead", "IT_capacity"}
MaxRawCols == 3

\* Sample rows: the cell of each column of the pool, some of them null.
RawRowSamples ==
    {[x \in RawColumnPool |-> IF x = "fr_load_actual_entsoe_transparency" THEN 100 ELSE 7],
     [x \in RawColumnPool |-> IF x = "fr_solar_generation_actual" THEN NaN ELSE 100],
     [x \in RawColumnPool |-> IF x = "fr_load_actual_entsoe_transparency" THEN NaN ELSE 7]}

RawColumnOrders ==
    {s \in SeqsUpTo(RawColumnPool, MaxRawCols) :
        Len(s) >= 2 /\ \A i, j \in DOMAIN s : i # j => s[i] # s[j]}

RawTables ==
    {t \in {[cols |-> c, row |-> [x \in {c[i] : i \in DOMAIN c} |-> r[x]], datetime_index |-> d] :
                c \in RawColumnOrders, r \in RawRowSamples, d \in BOOLEAN} :
        t.datetime_index => \A i \in DOMAIN t.cols : ~InSeq(t.cols[i], timestamp_cols)}

NoTable == [cols |-> <<>>, row |-> <<>>, datetime_index |-> FALSE]
NoResult == [done |-> FALSE, out |-> {}]

ProcessOpsdData ==
    /\ ~reconciled.done
    /\ reconciled' = [done |-> TRUE, out |-> process_opsd_data(raw)]
    /\ UNCHANGED <<raw, storeVars, jobVars, schedVars, gridVars, otherVars>>

InitRecon ==
    /\ raw \in RawTables
    /\ reconciled = NoResult

NextRecon ==
    \/ ProcessOpsdData

(***************************************************************************)
(* Household validator: HouseholdIngestionPipeline.validate_data           *)
(***************************************************************************)
MaxRows == 2          \* rows of an input table of a validator

\* Sample cells: null, a value in range, a value out of range.
PowerVals == {NaN, 5, 35}
VoltageVals == {NaN, 230, 300}
IntensityVals == {NaN, 10}
IndexVals == {1, NaT}

HouseholdRawRows ==
    [timestamp : IndexVals, global_active_power : PowerVals,
     voltage : VoltageVals, global_intensity : IntensityVals]

\* Input tables; row_id names the input row a returned row comes from.
HouseholdRawTables ==
    {[i \in DOMAIN t |->
        [row_id |-> i, timestamp |-> t[i].timestamp,
         global_active_power |-> t[i].global_active_power,
         voltage |-> t[i].voltage, global_intensity |-> t[i].global_intensity]] :
     t \in SeqsUpTo(HouseholdRawRows, MaxRows) \ {<<>>}}

\* A comparison with a null cell is false.
Between(v, lo, hi) == v # NaN /\ v >= lo /\ v <= hi

household_required_columns == 3

\* null_counts = data[required_columns].isnull().sum(axis=1)
NullCount(r) ==
    (IF r.global_active_power = NaN THEN 1 ELSE 0)
    + (IF r.voltage = NaN THEN 1 ELSE 0)
    + (IF r.global_intensity = NaN THEN 1 ELSE 0)

\* 1.0 - null_counts / len(required_columns), as a fraction
QualityScore_IgnoresIntensity(r) ==
    [num |-> household_required_columns
               - ((IF r.global_active_power = NaN THEN 1 ELSE 0)
                  + (IF r.voltage = NaN THEN 1 ELSE 0)),
     den |-> household_required_columns]

QualityScore(r) ==
    [num |-> household_required_columns - NullCount(r),
     den |-> household_required_columns]

\* validate_data: rows without timestamp are removed, then the rows whose
\* power is not in [0, 20], then the rows whose voltage is not in [200, 260];
\* the rows left get their quality score.
household_validate_data(data) ==
    LET indexed == SelectSeq(data, LAMBDA r : r.timestamp # NaT)
        powered == SelectSeq(indexed, LAMBDA r : Between(r.global_active_power, 0, 20))
        volted == SelectSeq(powered, LAMBDA r : Between(r.voltage, 200, 260))
    IN  [i \in DOMAIN volted |->
            [row_id |-> volted[i].row_id, timestamp |-> volted[i].timestamp,
             global_active_power |-> volted[i].global_active_power,
             voltage |-> volted[i].voltage,
             global_intensity |-> volted[i].global_intensity,
             data_quality_score |-> QualityScore(volted[i])]]

NotValidated == [done |-> FALSE, rows |-> <<>>]

ValidateHouseholdData ==
    /\ ~hh_out.done
    /\ hh_out' = [done |-> TRUE, rows |-> household_validate_data(hh_in)]
    /\ UNCHANGED <<hh_in, storeVars, jobVars, schedVars, gridVars, reconVars, gapVars, upsertVars, streamVars, opsdVars, fillVars, histVars, bufVars, locVars, wvVars>>

QuietValid ==
    /\ hh_in = <<>>
    /\ hh_out = NotValidated

InitValid ==
    /\ hh_in \in HouseholdRawTables
    /\ hh_out = NotValidated

NextValid ==
    \/ ValidateHouseholdData

(***************************************************************************)
(* Weather validation and the write paths of weather.observations          *)
(***************************************************************************)
\* WEATHER_VALIDATION_RANGES['relative_humidity_2m_pct']; the measurement
\* column of a weather row stands for this column.
humidity_min == 0
humidity_max == 100

\* Cells a fetch can deliver: null, in range, out of range.
FetchedHumidity == {NaN, 50, 150}
\* 50 + np.random.normal(0, 20): a draw in range and a draw above it.
StreamedHumidity == {50, 120}

WeatherFetched ==
    {b \in SeqsUpTo([timestamp : Timestamps, entity : Entities("weather"),
                     meas : FetchedHumidity, prov : {"Open-Meteo"}],
                    Cardinality(Timestamps)) :
        \A i, j \in DOMAIN b : i < j => b[i].timestamp < b[j].timestamp}

\* validate_data: out-of-range cells become null (a comparison with a null
\* cell is false), rows whose weather cells are all null are removed, the
\* null cells left are filled from the neighbouring rows.  With the one
\* weather column of the model no null cell is left to fill.
weather_validate_data(data) ==
    LET nulled == [i \in DOMAIN data |->
                      IF data[i].meas # NaN
                         /\ (data[i].meas < humidity_min \/ data[i].meas > humidity_max)
                      THEN [data[i] EXCEPT !.meas = NaN]
                      ELSE data[i]]
    IN  SelectSeq(nulled, LAMBDA r : r.meas # NaN)

\* ingest_batch_data, process_historical_data and fill_data_gaps, for one
\* location: fetch, validate_data, _insert_weather_data.
WeatherFetchValidateInsert ==
    \E df \in WeatherFetched \ {<<>>}, fault \in FaultPoints :
        /\ clock <= MaxClock
        /\ tables' = WriterCall("weather", weather_validate_data(df), fault).tables
        /\ last' = [WriterCall("weather", weather_validate_data(df), fault).last
                      EXCEPT !.kind = "validated"]
        /\ clock' = clock + 1
        /\ UNCHANGED <<batch_buffer, jobVars, schedVars, gridVars, reconVars, otherVars>>

\* One pass of _stream_weather_data with the simulator's draws.
StreamWeatherReadings ==
    \E vals \in [DOMAIN WeatherStreamLocations -> StreamedHumidity], down \in BOOLEAN :
        LET st == StreamWeatherFrom(1, vals, tables, batch_buffer, clock, down)
        IN  /\ clock <= MaxClock
            /\ tables' = st.tables
            /\ batch_buffer' = st.buffer
            /\ clock' = clock + 1
            /\ last' = NoCall
            /\ UNCHANGED <<jobVars, schedVars, gridVars, reconVars, otherVars>>

NextWeather ==
    \/ WeatherFetchValidateInsert
    \/ StreamWeatherReadings
    \/ Flush

(***************************************************************************)
(* Gap detection: WeatherIngestionPipeline.get_data_gaps                   *)
(***************************************************************************)
\* Time in half hours: the stored observations are on the hour (even), the
\* call can come on the hour or between two hours.
GapWindowHours == 4       \* days_back, in hours
HalfHoursPerHour == 2

GapNows == {10, 11}
StoredHours == {t \in 0..10 : t % HalfHoursPerHour = 0}

\* The sorted sequence of a set of times.
RECURSIVE SortedSeq(_)
SortedSeq(S) ==
    IF S = {} THEN <<>>
    ELSE LET m == CHOOSE x \in S : \A y \in S : x <= y
         IN  <<m>> \o SortedSeq(S \ {m})

\* The loop that groups consecutive missing timestamps, from position i on.
RECURSIVE GroupGaps(_, _, _, _)
GroupGaps(missing, i, gap_start, prev_timestamp) ==
    IF i > Len(missing)
    THEN <<[gap_start |-> gap_start, gap_end |-> prev_timestamp,
            gap_hours |-> (prev_timestamp - gap_start) \div HalfHoursPerHour + 1]>>
    ELSE IF missing[i] - prev_timestamp > HalfHoursPerHour
    THEN <<[gap_start |-> gap_start, gap_end |-> prev_timestamp,
            gap_hours |-> (prev_timestamp - gap_start) \div HalfHoursPerHour + 1]>>
         \o GroupGaps(missing, i + 1, missing[i], missing[i])
    ELSE GroupGaps(missing, i + 1, gap_start, missing[i])

\* get_data_gaps: rejected says that the engine refused the SELECT, whose
\* text has the bind markers of the two dates detached (">=: start_date");
\* every exception gives the empty table.
get_data_gaps(stored, now, rejected) ==
    LET end_date == now
        start_date == now - GapWindowHours * HalfHoursPerHour
        existing == {t \in stored : t >= start_date /\ t <= end_date}
        expected_range == {start_date + k * HalfHoursPerHour : k \in 0..GapWindowHours}
        missing == SortedSeq(expected_range \ existing)
    IN  IF rejected THEN <<>>
        ELSE IF existing = {}
        THEN <<[gap_start |-> start_date, gap_end |-> end_date,
                gap_hours |-> (end_date - start_date) \div HalfHoursPerHour]>>
        ELSE IF missing = <<>> THEN <<>>
        ELSE GroupGaps(missing, 2, missing[1], missing[1])

NoGaps == [done |-> FALSE, gaps |-> <<>>]

GetDataGaps ==
    \E rejected \in BOOLEAN :
        /\ ~gap_out.done
        /\ gap_out' = [done |-> TRUE, gaps |-> get_data_gaps(gap_in.stored, gap_in.now, rejected)]
        /\ UNCHANGED <<gap_in, storeVars, jobVars, schedVars, gridVars, reconVars, validVars, upsertVars, streamVars, opsdVars, fillVars, histVars, bufVars, locVars, wvVars>>

QuietGaps ==
    /\ gap_in = [stored |-> {}, now |-> 0]
    /\ gap_out = NoGaps

InitGaps ==
    /\ gap_in \in [stored : SUBSET StoredHours, now : GapNows]
    /\ gap_out = NoGaps

NextGaps ==
    \/ GetDataGaps

(***************************************************************************)
(* A writer call on a batch longer than one upsert batch                   *)
(***************************************************************************)
MaxExtraRows == 2     \* rows beyond one full upsert batch

LongDomains == {"household", "grid"}
StoreErrors == {"OperationalError", "DataError"}
UpsertFaultPoints == {0, 1, 2, 3}

\* df.to_dict('records') of a validated batch of n hourly rows from first on.
LongBatch(dom, first, n, v) ==
    [i \in 1..n |->
        [timestamp |-> first + i - 1, entity |-> CHOOSE e \in Entities(dom) : TRUE,
         meas |-> v, prov |-> ProvOf(v)]]

LongBatchInputs ==
    {[dom |-> dom, first |-> first, n |-> UpsertBatchSize(dom) + extra, v |-> v,
      tbl |-> IF seeded THEN <<SeedRow(dom)>> ELSE <<>>] :
        dom \in LongDomains, first \in Timestamps, extra \in 0..MaxExtraRows,
        v \in MeasVals, seeded \in BOOLEAN}

NoLongBatch == [dom |-> "none", first |-> 0, n |-> 0, v |-> 0, tbl |-> <<>>]
NotWritten == [done |-> FALSE, tbl |-> <<>>, ret |-> 0, failed |-> FALSE, fault |-> 0, error |-> "none"]

\* The writer called on the batch; the store call numbered fault raises
\* error (the handlers of the writer do not look at its class).
WriteLongBatch ==
    /\ ~up_out.done
    /\ \E fault \in UpsertFaultPoints, error \in StoreErrors :
          LET res == InsertData(up_in.dom, up_in.tbl,
                                LongBatch(up_in.dom, up_in.first, up_in.n, up_in.v),
                                clock, fault)
          IN  up_out' = [done |-> TRUE, tbl |-> res.tbl, ret |-> res.ret,
                         failed |-> res.failed, fault |-> fault,
                         error |-> IF res.failed THEN error ELSE "none"]
    /\ UNCHANGED <<up_in, storeVars, jobVars, schedVars, gridVars, reconVars, validVars, gapVars, streamVars, opsdVars, fillVars, histVars, bufVars, locVars, wvVars>>

QuietUpsert ==
    /\ up_in = NoLongBatch
    /\ up_out = NotWritten

InitUpsert ==
    /\ up_in \in LongBatchInputs
    /\ up_out = NotWritten

NextUpsert ==
    \/ WriteLongBatch

(***************************************************************************)
(* Streaming mode, life cycle: start_streaming gathers the three domain    *)
(* loops and the periodic flusher; time is counted in minutes.             *)
(***************************************************************************)
MaxStreamMinutes == 6     \* minutes the loops are followed while running

WeatherPollMinutes == 1
GridPollMinutes == 15
HouseholdPollMinutes == 1
FlushIntervalMinutes == 5

DomainLoops == {"weather", "grid", "household"}
Loops == DomainLoops \cup {"flusher"}

PollMinutes(l) ==
    CASE l = "weather"   -> WeatherPollMinutes
      [] l = "grid"      -> GridPollMinutes
      [] l = "household" -> HouseholdPollMinutes
      [] l = "flusher"   -> FlushIntervalMinutes

AtTop == [pc |-> "top", remaining |-> 0]
Ended == [pc |-> "done", remaining |-> 0]

\* The records one pass of the body of a domain loop appends.
LoopRecords(l, now) ==
    CASE l = "weather" ->
            [i \in DOMAIN WeatherStreamLocations |->
                StreamRecord("weather", WeatherStreamLocations[i],
                             CHOOSE v \in StreamVals : TRUE, now)]
      [] l = "grid" ->
            [i \in DOMAIN GridStreamCountries |->
                StreamRecord("grid", <<GridStreamCountries[i], GridStreamCountries[i]>>,
                             CHOOSE v \in StreamVals : TRUE, now)]
      [] l = "household" ->
            <<StreamRecord("household", "uci_france_001", CHOOSE v \in StreamVals : TRUE, now)>>

\* start_streaming up to the gather: nothing is started when the store
\* cannot be reached.
StartStreaming ==
    /\ phase = "idle"
    /\ \E connected \in BOOLEAN :
          IF connected
          THEN /\ is_running' = TRUE
               /\ phase' = "gathering"
               /\ loops' = [l \in Loops |-> AtTop]
          ELSE /\ phase' = "exited"
               /\ UNCHANGED <<is_running, loops>>
    /\ UNCHANGED <<stop_time, accepted, storeVars, jobVars, schedVars, gridVars, reconVars,
                   validVars, gapVars, upsertVars, opsdVars, fillVars, histVars, bufVars, locVars, wvVars>>

\* `while self.is_running:` of a domain loop, true: the body appends its
\* records (the weather loop flushes a full buffer) and the loop sleeps for
\* its polling interval.
LoopBody(l) ==
    /\ phase = "gathering"
    /\ loops[l].pc = "top"
    /\ is_running
    /\ \E down \in BOOLEAN :
          LET appended == batch_buffer \o LoopRecords(l, clock)
              st == IF l = "weather" /\ Len(appended) >= buffer_size
                    THEN FlushBuffer(tables, appended, clock, down)
                    ELSE [tables |-> tables, buffer |-> appended]
          IN  /\ tables' = st.tables
              /\ batch_buffer' = st.buffer
    /\ accepted' = accepted \cup {LoopRecords(l, clock)[i] : i \in DOMAIN LoopRecords(l, clock)}
    /\ loops' = [loops EXCEPT ![l] = [pc |-> "sleeping", remaining |-> PollMinutes(l)]]
    /\ UNCHANGED <<clock, last, is_running, phase, stop_time, jobVars, schedVars, gridVars,
                   reconVars, validVars, gapVars, upsertVars, opsdVars, fillVars, histVars, bufVars, locVars, wvVars>>

\* `while self.is_running:` of _flush_buffer_periodically, true: sleep first.
FlusherSleep ==
    /\ phase = "gathering"
    /\ loops["flusher"].pc = "top"
    /\ is_running
    /\ loops' = [loops EXCEPT !["flusher"] = [pc |-> "sleeping", remaining |-> FlushIntervalMinutes]]
    /\ UNCHANGED <<is_running, phase, stop_time, accepted, storeVars, jobVars, schedVars,
                   gridVars, reconVars, validVars, gapVars, upsertVars, opsdVars, fillVars, histVars, bufVars, locVars, wvVars>>

\* `while self.is_running:` false: the coroutine returns.
LoopExit(l) ==
    /\ phase = "gathering"
    /\ loops[l].pc = "top"
    /\ ~is_running
    /\ loops' = [loops EXCEPT ![l] = Ended]
    /\ UNCHANGED <<is_running, phase, stop_time, accepted, storeVars, jobVars, schedVars,
                   gridVars, reconVars, validVars, gapVars, upsertVars, opsdVars, fillVars, histVars, bufVars, locVars, wvVars>>

\* asyncio.sleep returns after its whole interval: a domain loop goes back
\* to its `while`, the flusher flushes a non-empty buffer first.
Wake(l) ==
    /\ phase = "gathering"
    /\ loops[l].pc = "sleeping"
    /\ loops[l].remaining = 0
    /\ \E down \in BOOLEAN :
          LET st == IF l = "flusher"
                    THEN FlushBuffer(tables, batch_buffer, clock, down)
                    ELSE [tables |-> tables, buffer |-> batch_buffer]
          IN  /\ tables' = st.tables
              /\ batch_buffer' = st.buffer
    /\ loops' = [loops EXCEPT ![l] = AtTop]
    /\ UNCHANGED <<clock, last, is_running, phase, stop_time, accepted, jobVars, schedVars,
                   gridVars, reconVars, validVars, gapVars, upsertVars, opsdVars, fillVars, histVars, bufVars, locVars, wvVars>>

\* A minute passes: every coroutine is suspended in its sleep.
Tick ==
    /\ phase = "gathering"
    /\ \A l \in Loops : loops[l].pc \in {"sleeping", "done"}
    /\ \E l \in Loops : loops[l].pc = "sleeping"
    /\ \A l \in Loops : loops[l].pc = "sleeping" => loops[l].remaining > 0
    /\ is_running => clock < MaxStreamMinutes
    /\ clock' = clock + 1
    /\ loops' = [l \in Loops |->
                    IF loops[l].pc = "sleeping"
                    THEN [loops[l] EXCEPT !.remaining = loops[l].remaining - 1]
                    ELSE loops[l]]
    /\ UNCHANGED <<tables, batch_buffer, last, is_running, phase, stop_time, accepted,
                   jobVars, schedVars, gridVars, reconVars, validVars, gapVars, upsertVars, opsdVars, fillVars, histVars, bufVars, locVars, wvVars>>

\* stop_streaming: clears the flag and flushes; the loops are left to find
\* the flag at their next `while`.
StopStreaming ==
    /\ phase = "gathering"
    /\ is_running
    /\ \E down \in BOOLEAN :
          LET st == FlushBuffer(tables, batch_buffer, clock, down)
          IN  /\ tables' = st.tables
              /\ batch_buffer' = st.buffer
    /\ is_running' = FALSE
    /\ stop_time' = clock
    /\ UNCHANGED <<clock, last, loops, phase, accepted, jobVars, schedVars, gridVars,
                   reconVars, validVars, gapVars, upsertVars, opsdVars, fillVars, histVars, bufVars, locVars, wvVars>>

\* The `finally` of start_streaming: flag cleared, final flush, disconnect.
\* It runs when the gather returns (every coroutine has returned) or when
\* start_streaming is cancelled or interrupted, which cancels the
\* coroutines in their sleep.
FinishStreaming ==
    /\ phase = "gathering"
    /\ \E cancelled \in BOOLEAN, down \in BOOLEAN :
          LET st == FlushBuffer(tables, batch_buffer, clock, down)
          IN  /\ cancelled \/ \A l \in Loops : loops[l].pc = "done"
              /\ tables' = st.tables
              /\ batch_buffer' = st.buffer
    /\ loops' = [l \in Loops |-> Ended]
    /\ is_running' = FALSE
    /\ stop_time' = IF is_running THEN clock ELSE stop_time
    /\ phase' = "exited"
    /\ UNCHANGED <<clock, last, accepted, jobVars, schedVars, gridVars, reconVars,
                   validVars, gapVars, upsertVars, opsdVars, fillVars, histVars, bufVars, locVars, wvVars>>

InitStream ==
    /\ is_running = FALSE
    /\ loops = [l \in Loops |-> AtTop]
    /\ phase = "idle"
    /\ stop_time = 0
    /\ accepted = {}

NextStream ==
    \/ StartStreaming
    \/ \E l \in DomainLoops : LoopBody(l)
    \/ FlusherSleep
    \/ \E l \in Loops : LoopExit(l)
    \/ \E l \in Loops : Wake(l)
    \/ Tick
    \/ StopStreaming
    \/ FinishStreaming

(***************************************************************************)
(* The OPSD fetch: GridIngestionPipeline._fetch_opsd_data                  *)
(***************************************************************************)
opsd_urls == <<"latest", "2020-10-06">>

\* What a step on one URL can do: return, or raise an exception of a class.
GetOutcomes == {"ok", "HTTPError"}
GzipOutcomes == {"ok", "BadGzipFile", "EmptyDataError", "EOFError", "ParserError"}
PlainOutcomes == {"ok", "ParserError"}
Utf8Outcomes == {"ok", "UnicodeDecodeError"}

\* The classes named by the except clause of the first parse.
GzipFallbackErrors == {"OSError", "EmptyDataError", "BadGzipFile"}

UrlOutcomes ==
    [get : GetOutcomes, gzip : GzipOutcomes, plain : PlainOutcomes,
     utf8 : Utf8Outcomes, processed_empty : BOOLEAN]

\* The body of the loop for one URL: the steps made, the parse whose table
\* is used ("none" when the URL is given up).
FetchUrl(o) ==
    IF o.get # "ok" THEN [steps |-> <<"get">>, used |-> "none"]
    ELSE IF o.gzip = "ok" THEN [steps |-> <<"get", "gzip">>, used |-> "gzip"]
    ELSE IF o.gzip \notin GzipFallbackErrors THEN [steps |-> <<"get", "gzip">>, used |-> "none"]
    ELSE IF o.plain = "ok" THEN [steps |-> <<"get", "gzip", "plain">>, used |-> "plain"]
    ELSE IF o.utf8 = "ok" THEN [steps |-> <<"get", "gzip", "plain", "utf8">>, used |-> "utf8"]
    ELSE [steps |-> <<"get", "gzip", "plain", "utf8">>, used |-> "none"]

\* The loop over opsd_urls from index i on: the first URL with a parsed
\* table that is not empty after processing is returned.
RECURSIVE FetchOpsdFrom(_, _, _)
FetchOpsdFrom(outcomes, i, trace) ==
    IF i > Len(opsd_urls) THEN [trace |-> trace, url |-> 0, used |-> "none"]
    ELSE LET f == FetchUrl(outcomes[i])
         IN  IF f.used # "none" /\ ~outcomes[i].processed_empty
             THEN [trace |-> Append(trace, f.steps), url |-> i, used |-> f.used]
             ELSE FetchOpsdFrom(outcomes, i + 1, Append(trace, f.steps))

fetch_opsd_data(outcomes) == FetchOpsdFrom(outcomes, 1, <<>>)

NoOutcomes ==
    [i \in DOMAIN opsd_urls |->
        [get |-> "HTTPError", gzip |-> "ok", plain |-> "ok", utf8 |-> "ok",
         processed_empty |-> FALSE]]
NotFetched == [done |-> FALSE, trace |-> <<>>, url |-> 0, used |-> "none"]

FetchOpsdData ==
    /\ ~opsd_out.done
    /\ opsd_out' = [done |-> TRUE, trace |-> fetch_opsd_data(opsd_in).trace,
                    url |-> fetch_opsd_data(opsd_in).url,
                    used |-> fetch_opsd_data(opsd_in).used]
    /\ UNCHANGED <<opsd_in, storeVars, jobVars, schedVars, gridVars, reconVars, validVars,
                   gapVars, upsertVars, streamVars, fillVars, histVars, bufVars, locVars, wvVars>>

QuietOpsd ==
    /\ opsd_in = NoOutcomes
    /\ opsd_out = NotFetched

InitOpsd ==
    /\ opsd_in \in [DOMAIN opsd_urls -> UrlOutcomes]
    /\ opsd_out = NotFetched

NextOpsd ==
    \/ FetchOpsdData

(***************************************************************************)
(* The weather fetch and the gap fill: _fetch_weather_data, fill_data_gaps *)
(* Time in hours.                                                          *)
(***************************************************************************)
HoursPerDay == 24
max_gap_days == 7

DayOf(t) == t \div HoursPerDay

\* The request carries start_time and end_time as dates ('%Y-%m-%d'): the
\* response holds every hour of every day from the day of start_time to the
\* day of end_time.
RequestedHours(start_time, end_time) ==
    {t \in (DayOf(start_time) * HoursPerDay)..(DayOf(end_time) * HoursPerDay + HoursPerDay - 1) : TRUE}

\* _fetch_weather_data: the empty table when the request fails, else one
\* row per hour of the response, in time order, each with the cell v.
fetch_weather_data(start_time, end_time, location_id, api_ok, v) ==
    IF ~api_ok \/ DayOf(start_time) > DayOf(end_time) THEN <<>>
    ELSE [i \in 1..Cardinality(RequestedHours(start_time, end_time)) |->
            [timestamp |-> DayOf(start_time) * HoursPerDay + i - 1, entity |-> location_id,
             meas |-> v, prov |-> "Open-Meteo"]]

\* fetch, validate_data and _insert_weather_data for one interval of one
\* location: the table after it, the count and the hours fetched.
FetchValidateInsert(tbl, start_time, end_time, location_id, api_ok, v, now, fault) ==
    LET weather_data == fetch_weather_data(start_time, end_time, location_id, api_ok, v)
        res == IF weather_data # <<>>
               THEN InsertData("weather", tbl, weather_validate_data(weather_data), now, fault)
               ELSE [tbl |-> tbl, ret |-> 0, failed |-> FALSE]
    IN  [tbl |-> res.tbl, ret |-> res.ret, failed |-> res.failed,
         request |-> [start_time |-> start_time, end_time |-> end_time,
                      location_id |-> location_id,
                      fetched |-> {weather_data[i].timestamp : i \in DOMAIN weather_data}]]

\* The loop of fill_data_gaps over the rows of gaps_df from row i on.
RECURSIVE FillGapsFrom(_, _, _, _, _, _, _, _)
FillGapsFrom(i, gaps, tbl, location_id, api_ok, v, now, fault) ==
    IF i > Len(gaps) THEN [tbl |-> tbl, ret |-> 0, requests |-> <<>>]
    ELSE IF gaps[i].gap_hours <= max_gap_days * HoursPerDay
    THEN LET one == FetchValidateInsert(tbl, gaps[i].gap_start, gaps[i].gap_end,
                                        location_id, api_ok, v, now, fault)
             rest == FillGapsFrom(i + 1, gaps, one.tbl, location_id, api_ok, v, now, fault)
         IN  [tbl |-> rest.tbl, ret |-> one.ret + rest.ret,
              requests |-> <<one.request>> \o rest.requests]
    ELSE FillGapsFrom(i + 1, gaps, tbl, location_id, api_ok, v, now, fault)

fill_data_gaps(tbl, gaps, location_id, api_ok, v, now, fault) ==
    FillGapsFrom(1, gaps, tbl, location_id, api_ok, v, now, fault)

\* Gaps get_data_gaps can report: inside one day, across midnight, and
\* longer than max_gap_days.
GapSamples ==
    {[gap_start |-> 30, gap_end |-> 32, gap_hours |-> 3],
     [gap_start |-> 70, gap_end |-> 73, gap_hours |-> 4],
     [gap_start |-> 100, gap_end |-> 300, gap_hours |-> 201]}

GapTables ==
    {g \in SeqsUpTo(GapSamples, Cardinality(GapSamples)) :
        \A i, j \in DOMAIN g : i < j => g[i].gap_end < g[j].gap_start}

NoFill == [gaps |-> <<>>, api_ok |-> FALSE, v |-> 0, fault |-> 0]
NotFilled == [done |-> FALSE, tbl |-> <<>>, ret |-> 0, requests |-> <<>>]

FillDataGaps ==
    /\ ~fill_out.done
    /\ LET res == fill_data_gaps(<<>>, fill_in.gaps, "paris_fr_001", fill_in.api_ok,
                                 fill_in.v, clock, fill_in.fault)
       IN  fill_out' = [done |-> TRUE, tbl |-> res.tbl, ret |-> res.ret,
                        requests |-> res.requests]
    /\ UNCHANGED <<fill_in, storeVars, jobVars, schedVars, gridVars, reconVars, validVars,
                   gapVars, upsertVars, streamVars, opsdVars, histVars, bufVars, locVars, wvVars>>

QuietFill ==
    /\ fill_in = NoFill
    /\ fill_out = NotFilled

InitFill ==
    /\ fill_in \in [gaps : GapTables, api_ok : BOOLEAN, v : FetchedHumidity, fault : {0, 1}]
    /\ fill_out = NotFilled

NextFill ==
    \/ FillDataGaps

(***************************************************************************)
(* Weather backfill: WeatherIngestionPipeline.process_historical_data      *)
(* Time in hours.  A write is kept as the hours written and their number.  *)
(***************************************************************************)
chunk_days == 30

\* The body of the loop over weather_locations for one chunk, from location
\* i on: one fetch per location; a location whose fetch fails adds nothing.
RECURSIVE HistoricalLocationsFrom(_, _, _, _)
HistoricalLocationsFrom(i, current_date, chunk_end, api_ok) ==
    IF i > Len(WeatherStreamLocations) THEN <<>>
    ELSE LET fetched == IF api_ok[i] /\ DayOf(current_date) <= DayOf(chunk_end)
                        THEN RequestedHours(current_date, chunk_end) ELSE {}
         IN  <<[start_time |-> current_date, end_time |-> chunk_end,
                location_id |-> WeatherStreamLocations[i], fetched |-> fetched,
                inserted |-> Cardinality(fetched)]>>
             \o HistoricalLocationsFrom(i + 1, current_date, chunk_end, api_ok)

\* `while current_date < end_date`: chunk_end = min(current_date + 30 days,
\* end_date), then current_date = chunk_end + 1 hour.
RECURSIVE HistoricalChunksFrom(_, _, _)
HistoricalChunksFrom(current_date, end_date, api_ok) ==
    IF ~(current_date < end_date) THEN <<>>
    ELSE LET chunk_end == Min(current_date + chunk_days * HoursPerDay, end_date)
         IN  HistoricalLocationsFrom(1, current_date, chunk_end, api_ok)
             \o HistoricalChunksFrom(chunk_end + 1, end_date, api_ok)

RECURSIVE SumInserted(_, _)
SumInserted(requests, i) ==
    IF i > Len(requests) THEN 0 ELSE requests[i].inserted + SumInserted(requests, i + 1)

weather_process_historical_data(start_date, end_date, api_ok) ==
    LET requests == HistoricalChunksFrom(start_date, end_date, api_ok)
    IN  [requests |-> requests, ret |-> SumInserted(requests, 1)]

HistoricalStarts == {0, 23}
HistoricalEnds == {24, 600, 720, 721, 744, 1441, 1500}

NoBackfill == [start_date |-> 0, end_date |-> 0, api_ok |-> <<FALSE, FALSE, FALSE>>]
NotBackfilled == [done |-> FALSE, requests |-> <<>>, ret |-> 0]

WeatherProcessHistoricalData ==
    /\ ~hist_out.done
    /\ LET res == weather_process_historical_data(hist_in.start_date, hist_in.end_date,
                                                  hist_in.api_ok)
       IN  hist_out' = [done |-> TRUE, requests |-> res.requests, ret |-> res.ret]
    /\ UNCHANGED <<hist_in, storeVars, jobVars, schedVars, gridVars, reconVars, validVars,
                   gapVars, upsertVars, streamVars, opsdVars, fillVars, bufVars, locVars, wvVars>>

QuietHist ==
    /\ hist_in = NoBackfill
    /\ hist_out = NotBackfilled

InitHist ==
    /\ hist_in \in [start_date : HistoricalStarts, end_date : HistoricalEnds,
                    api_ok : [DOMAIN WeatherStreamLocations -> BOOLEAN]]
    /\ hist_out = NotBackfilled

NextHist ==
    \/ WeatherProcessHistoricalData

(***************************************************************************)
(* Streaming mode, the buffer over a long run: the three domain loops and  *)
(* the periodic flusher of StreamingIngestionManager, minute by minute.    *)
(* flush_interval is an attribute of the manager; the coroutines that are  *)
(* due in the same minute run in the order start_streaming gathers them.   *)
(***************************************************************************)
MaxBufferMinutes == 47     \* minutes of streaming followed

FlushIntervals == {FlushIntervalMinutes, 12 * FlushIntervalMinutes}

FixedVals == [i \in DOMAIN WeatherStreamLocations |-> CHOOSE v \in StreamVals : TRUE]

\* The weather loop wakes every minute; it alone checks the size.
BufferWeatherPass ==
    /\ turn = "weather"
    /\ LET st == StreamWeatherFrom(1, FixedVals, tables, batch_buffer, minute, store_down)
       IN  /\ tables' = st.tables
           /\ batch_buffer' = st.buffer
    /\ turn' = "grid"
    /\ UNCHANGED <<clock, last, minute, flush_interval, store_down, jobVars, schedVars,
                   gridVars, reconVars, validVars, gapVars, upsertVars, streamVars,
                   opsdVars, fillVars, histVars, locVars, wvVars>>

\* The grid loop wakes every 15 minutes.
BufferGridPass ==
    /\ turn = "grid"
    /\ batch_buffer' = IF minute % GridPollMinutes = 0
                       THEN batch_buffer \o LoopRecords("grid", minute)
                       ELSE batch_buffer
    /\ turn' = "household"
    /\ UNCHANGED <<tables, clock, last, minute, flush_interval, store_down, jobVars,
                   schedVars, gridVars, reconVars, validVars, gapVars, upsertVars,
                   streamVars, opsdVars, fillVars, histVars, locVars, wvVars>>

\* The household loop wakes every minute.
BufferHouseholdPass ==
    /\ turn = "household"
    /\ batch_buffer' = batch_buffer \o LoopRecords("household", minute)
    /\ turn' = "flusher"
    /\ UNCHANGED <<tables, clock, last, minute, flush_interval, store_down, jobVars,
                   schedVars, gridVars, reconVars, validVars, gapVars, upsertVars,
                   streamVars, opsdVars, fillVars, histVars, locVars, wvVars>>

\* _flush_buffer_periodically wakes every flush_interval and flushes a
\* non-empty buffer; then the minute ends.
BufferFlusherPass ==
    /\ turn = "flusher"
    /\ minute < MaxBufferMinutes
    /\ LET st == IF minute > 0 /\ minute % flush_interval = 0
                 THEN FlushBuffer(tables, batch_buffer, minute, store_down)
                 ELSE [tables |-> tables, buffer |-> batch_buffer]
       IN  /\ tables' = st.tables
           /\ batch_buffer' = st.buffer
    /\ minute' = minute + 1
    /\ turn' = "weather"
    /\ UNCHANGED <<clock, last, flush_interval, store_down, jobVars, schedVars, gridVars,
                   reconVars, validVars, gapVars, upsertVars, streamVars, opsdVars,
                   fillVars, histVars, locVars, wvVars>>

QuietBuffer ==
    /\ minute = 0
    /\ turn = "idle"
    /\ flush_interval = FlushIntervalMinutes
    /\ store_down = FALSE

InitBuffer ==
    /\ minute = 0
    /\ turn = "weather"
    /\ flush_interval \in FlushIntervals
    /\ store_down \in BOOLEAN

NextBuffer ==
    \/ BufferWeatherPass
    \/ BufferGridPass
    \/ BufferHouseholdPass
    \/ BufferFlusherPass

(***************************************************************************)
(* One weather run over the configured locations:                          *)
(* WeatherIngestionPipeline.ingest_batch_data, with what each location     *)
(* meets.  Time in hours.                                                  *)
(***************************************************************************)
\* What the body of the loop meets for one location: everything works, the
\* fetch yields nothing, validation removes every row, an exception is
\* raised in the body, the store refuses the write.
LocationOutcomes == {"ok", "empty", "invalid", "raises", "write_fails"}

IngestNow == 30      \* datetime.now() of the run, hour 6 of day 1

\* The body of the loop for one location, inside its try block.
IngestLocation(tbl, start_time, end_time, location_id, outcome, now) ==
    IF outcome = "raises" THEN [tbl |-> tbl, ret |-> 0]
    ELSE LET one == FetchValidateInsert(tbl, start_time, end_time, location_id,
                                        outcome # "empty",
                                        IF outcome = "invalid" THEN humidity_max + 1
                                        ELSE humidity_max,
                                        now, IF outcome = "write_fails" THEN 1 ELSE 0)
         IN  [tbl |-> one.tbl, ret |-> one.ret]

\* Mutant: the exception of a location leaves the loop.
LoopContinues_Reraise(outcome) == outcome # "raises"

\* `except Exception: ... continue`: the loop goes on to the next location
\* whatever the body met.
LoopContinues(outcome) == TRUE

RECURSIVE IngestLocationsFrom(_, _, _, _)
IngestLocationsFrom(i, tbl, outcomes, now) ==
    IF i > Len(WeatherStreamLocations) THEN [tbl |-> tbl, ret |-> 0]
    ELSE LET one == IngestLocation(tbl, now - HoursPerDay, now,
                                   WeatherStreamLocations[i], outcomes[i], now)
         IN  IF LoopContinues(outcomes[i])
             THEN LET rest == IngestLocationsFrom(i + 1, one.tbl, outcomes, now)
                  IN  [tbl |-> rest.tbl, ret |-> one.ret + rest.ret]
             ELSE one

AllOk == [i \in DOMAIN WeatherStreamLocations |-> "ok"]

\* The table before the run: empty, or as the run of the hour before left it.
TableBefore(seeded) ==
    IF seeded THEN IngestLocationsFrom(1, <<>>, AllOk, IngestNow - 1).tbl ELSE <<>>

NoLocations == [outcomes |-> <<>>, seeded |-> FALSE]
NotIngested == [done |-> FALSE, tbl |-> <<>>, ret |-> 0]

WeatherIngestBatchData ==
    /\ ~loc_out.done
    /\ LET res == IngestLocationsFrom(1, TableBefore(loc_in.seeded), loc_in.outcomes, IngestNow)
       IN  loc_out' = [done |-> TRUE, tbl |-> res.tbl, ret |-> res.ret]
    /\ UNCHANGED <<loc_in, storeVars, jobVars, schedVars, gridVars, reconVars, validVars,
                   gapVars, upsertVars, streamVars, opsdVars, fillVars, histVars, bufVars, wvVars>>

QuietLocs ==
    /\ loc_in = NoLocations
    /\ loc_out = NotIngested

InitLocs ==
    /\ loc_in \in [outcomes : [DOMAIN WeatherStreamLocations -> LocationOutcomes],
                   seeded : BOOLEAN]
    /\ loc_out = NotIngested

NextLocs ==
    \/ WeatherIngestBatchData

(***************************************************************************)
(* Weather validation over several measurement columns:                    *)
(* WeatherIngestionPipeline.validate_data.  A row is its timestamp and its *)
(* cells, one per weather column; NaN is a null cell.                      *)
(***************************************************************************)
temperature_min == -50
temperature_max == 60

MaxWeatherRows == 3     \* rows of a fetched frame

\* Columns of the frame outside timestamp, location_id, latitude, longitude
\* and data_provider: two with a validation range, one without.
weather_cols == {"temperature_2m_c", "relative_humidity_2m_pct", "dew_point_2m_c"}

WEATHER_VALIDATION_RANGES ==
    [temperature_2m_c |-> <<temperature_min, temperature_max>>,
     relative_humidity_2m_pct |-> <<humidity_min, humidity_max>>]

\* The first non-null cell of column c in rows i-1, i-2, ... (ffill), NaN
\* when there is none.
RECURSIVE Ffill(_, _, _)
Ffill(rows, i, c) ==
    IF i < 1 THEN NaN
    ELSE IF rows[i].cells[c] # NaN THEN rows[i].cells[c]
    ELSE Ffill(rows, i - 1, c)

\* The first non-null cell of column c in rows i, i+1, ... (bfill).
RECURSIVE Bfill(_, _, _)
Bfill(rows, i, c) ==
    IF i > Len(rows) THEN NaN
    ELSE IF rows[i].cells[c] # NaN THEN rows[i].cells[c]
    ELSE Bfill(rows, i + 1, c)

\* data.loc[invalid_mask, variable] = np.nan, for every ranged column; a
\* comparison with a null cell is false.
NullOutOfRange(row) ==
    [row EXCEPT !.cells =
        [c \in weather_cols |->
            IF /\ c \in DOMAIN WEATHER_VALIDATION_RANGES
               /\ row.cells[c] # NaN
               /\ \/ row.cells[c] < WEATHER_VALIDATION_RANGES[c][1]
                  \/ row.cells[c] > WEATHER_VALIDATION_RANGES[c][2]
            THEN NaN
            ELSE row.cells[c]]]

\* Mutant: dropna(how='any').
DroppedRow_Any(row) == \E c \in weather_cols : row.cells[c] = NaN

\* dropna(subset=weather_cols, how='all')
DroppedRow(row) == \A c \in weather_cols : row.cells[c] = NaN

validate_data(data) ==
    LET nulled == [i \in DOMAIN data |-> NullOutOfRange(data[i])]
        kept == SelectSeq(nulled, LAMBDA row : ~DroppedRow(row))
    IN  [i \in DOMAIN kept |->
            [kept[i] EXCEPT !.cells =
                [c \in weather_cols |->
                    IF Ffill(kept, i, c) # NaN THEN Ffill(kept, i, c)
                    ELSE Bfill(kept, i, c)]]]

\* Cells a fetched row can hold in one column: null, a value in range that
\* tells the row, and for a column with a range a value above it.
CellKinds(c) ==
    IF c \in DOMAIN WEATHER_VALIDATION_RANGES THEN {"nan", "in", "out"} ELSE {"nan", "in"}

CellValue(kind, i, c) ==
    CASE kind = "nan" -> NaN
      [] kind = "in"  -> i
      [] kind = "out" -> WEATHER_VALIDATION_RANGES[c][2] + i

RowKinds == {k \in [weather_cols -> {"nan", "in", "out"}] : \A c \in weather_cols : k[c] \in CellKinds(c)}

FetchedFrames ==
    UNION {[1..n -> RowKinds] : n \in 1..MaxWeatherRows}

FrameOf(kinds) ==
    [i \in DOMAIN kinds |->
        [timestamp |-> i, cells |-> [c \in weather_cols |-> CellValue(kinds[i][c], i, c)]]]

FrameNotValidated == [done |-> FALSE, data |-> <<>>]

ValidateWeatherData ==
    /\ ~wv_out.done
    /\ wv_out' = [done |-> TRUE, data |-> validate_data(wv_in)]
    /\ UNCHANGED <<wv_in, storeVars, jobVars, schedVars, gridVars, reconVars, validVars,
                   gapVars, upsertVars, streamVars, opsdVars, fillVars, histVars, bufVars,
                   locVars>>

QuietWv ==
    /\ wv_in = <<>>
    /\ wv_out = FrameNotValidated

InitWv ==
    /\ wv_in \in {FrameOf(kinds) : kinds \in FetchedFrames}
    /\ wv_out = FrameNotValidated

NextWv ==
    \/ ValidateWeatherData

(***************************************************************************)
(* Specification of the store                                             *)
(***************************************************************************)
\* The store outlives the process: at start every table is empty, or every
\* table holds one row written by an earlier run.
InitStore ==
    /\ \E seeded \in BOOLEAN :
          tables = [d \in Domains |-> IF seeded THEN <<SeedRow(d)>> ELSE <<>>]
    /\ batch_buffer = <<>>
    /\ clock = 1
    /\ last = NoCall

QuietBase ==
    /\ InitStore
    /\ InitStream
    /\ InitJob
    /\ InitSched
    /\ InitGrid

\* The same with every table empty, for the operations that do not read
\* the store.
QuietAll ==
    /\ tables = [d \in Domains |-> <<>>]
    /\ batch_buffer = <<>>
    /\ clock = 1
    /\ last = NoCall
    /\ InitStream
    /\ InitJob
    /\ InitSched
    /\ InitGrid

QuietRecon ==
    /\ raw = NoTable
    /\ reconciled = NoResult

\* The variables of the function-like operations hold no input, except
\* those of the operation named, which start from every input.
InitInputs(which) ==
    /\ IF which = "recon" THEN InitRecon ELSE QuietRecon
    /\ IF which = "valid" THEN InitValid ELSE QuietValid
    /\ IF which = "gaps" THEN InitGaps ELSE QuietGaps
    /\ IF which = "upsert" THEN InitUpsert ELSE QuietUpsert
    /\ IF which = "opsd" THEN InitOpsd ELSE QuietOpsd
    /\ IF which = "fill" THEN InitFill ELSE QuietFill
    /\ IF which = "hist" THEN InitHist ELSE QuietHist
    /\ IF which = "buffer" THEN InitBuffer ELSE QuietBuffer
    /\ IF which = "locs" THEN InitLocs ELSE QuietLocs
    /\ IF which = "wv" THEN InitWv ELSE QuietWv

Init ==
    /\ QuietBase
    /\ InitInputs("none")

InitReconciler ==
    /\ QuietAll
    /\ InitInputs("recon")

InitValidator ==
    /\ QuietAll
    /\ InitInputs("valid")

InitGapDetector ==
    /\ QuietAll
    /\ InitInputs("gaps")

InitLongBatch ==
    /\ QuietAll
    /\ InitInputs("upsert")

InitOpsdFetch ==
    /\ QuietAll
    /\ InitInputs("opsd")

NextStore ==
    \/ InsertWeatherData
    \/ InsertGridData
    \/ UpsertHouseholdData
    \/ StreamWeatherData
    \/ StreamGridData
    \/ StreamHouseholdData
    \/ Flush

InitGapFill ==
    /\ QuietAll
    /\ InitInputs("fill")

InitBackfill ==
    /\ QuietAll
    /\ InitInputs("hist")

InitLongStream ==
    /\ QuietAll
    /\ InitInputs("buffer")

InitLocations ==
    /\ QuietAll
    /\ InitInputs("locs")

InitWeatherFrames ==
    /\ QuietAll
    /\ InitInputs("wv")

SpecStore == Init /\ [][NextStore]_vars

SpecJob == Init /\ [][NextJob]_vars

SpecGrid == Init /\ [][NextGrid]_vars

SpecSched == Init /\ [][NextSched]_vars

SpecRecon == InitReconciler /\ [][NextRecon]_vars

SpecValid == InitValidator /\ [][NextValid]_vars

SpecWeather == Init /\ [][NextWeather]_vars

SpecGaps == InitGapDetector /\ [][NextGaps]_vars

SpecUpsert == InitLongBatch /\ [][NextUpsert]_vars

SpecStream == Init /\ [][NextStream]_vars

SpecOpsd == InitOpsdFetch /\ [][NextOpsd]_vars

SpecFill == InitGapFill /\ [][NextFill]_vars

SpecHist == InitBackfill /\ [][NextHist]_vars

SpecBuffer == InitLongStream /\ [][NextBuffer]_vars

SpecLocs == InitLocations /\ [][NextLocs]_vars

SpecWv == InitWeatherFrames /\ [][NextWv]_vars


(***************************************************************************)
(* Claims about the writers                                                *)
(***************************************************************************)
\* The stored rows without the ingestion timestamp.
RowView(tbl) ==
    [i \in DOMAIN tbl |->
        [timestamp |-> tbl[i].timestamp, entity |-> tbl[i].entity,
         meas |-> tbl[i].meas, prov |-> tbl[i].prov]]

RowsWithKey(tbl, k) == {i \in DOMAIN tbl : Key(tbl[i]) = k}

\* C1: when a writer has been called twice in a row with the same validated
\* batch of pairwise distinct keys and no store failure, the table holds
\* the same rows (keys, values, row count) as after the first call.
C1_WriteTwiceIsWriteOnce ==
    (last.kind = "write" /\ last.repeat /\ DistinctKeys(last.batch))
        => RowView(tables[last.dom]) = RowView(last.before)

C1_Witness ==
    /\ last.kind = "write" /\ last.repeat /\ DistinctKeys(last.batch)
    /\ Len(last.batch) = 2
    /\ last.ret = 2
    /\ Len(tables[last.dom]) = 2

\* C2: after a writer call without store failure on a batch of pairwise
\* distinct keys, every stored row whose key was already stored holds the
\* batch's value in every non-key column, has its ingestion timestamp
\* refreshed, and its key is stored once.
C2_EveryNonKeyColumnOverwritten ==
    (last.kind = "write" /\ ~last.failed /\ DistinctKeys(last.batch))
        => \A i \in DOMAIN last.batch :
              Key(last.batch[i]) \in KeysOf(last.before)
                 => /\ Cardinality(RowsWithKey(tables[last.dom], Key(last.batch[i]))) = 1
                    /\ \A j \in RowsWithKey(tables[last.dom], Key(last.batch[i])) :
                          /\ tables[last.dom][j].meas = last.batch[i].meas
                          /\ tables[last.dom][j].prov = last.batch[i].prov
                          /\ tables[last.dom][j].ingestion_timestamp = last.now

\* C3: no table holds two rows with the same compound key.
C3_KeyUnique ==
    \A d \in Domains : DistinctKeys(tables[d])

C3_Witness ==
    /\ last.kind = "write" /\ ~last.failed
    /\ KeysOf(last.batch) \cap KeysOf(last.before) # {}
    /\ Len(tables[last.dom]) = 2
    /\ batch_buffer = <<>>

(***************************************************************************)
(* Claims about the job tracker                                            *)
(***************************************************************************)
JobCore(r) ==
    <<r.end_time, r.status, r.records_processed, r.records_inserted,
      r.error_message>>

\* C4: every job on which complete_job has been called, with whatever
\* arguments, has status completed or failed, never running, and an end
\* time that is set and not before its start time.
C4_CompletedJobIsTerminal ==
    \A id \in DOMAIN ingestion_log :
        completeCalls[id] >= 1
            => /\ ingestion_log[id].status \in {"completed", "failed"}
               /\ ingestion_log[id].end_time # NullTime
               /\ ingestion_log[id].start_time <= ingestion_log[id].end_time

\* C5: once complete_job has given a job a terminal status, no later step
\* changes its end time, status, counts or error message.
C5_FirstCompleteIsAuthoritative ==
    [][\A id \in DOMAIN ingestion_log :
          (completeCalls[id] >= 1
             /\ ingestion_log[id].status \in {"completed", "failed"})
              => JobCore(ingestion_log'[id]) = JobCore(ingestion_log[id])]_vars

(***************************************************************************)
(* Claims about the grid source chain                                      *)
(***************************************************************************)
IsPrefix(s, t) == Len(s) <= Len(t) /\ s = SubSeq(t, 1, Len(s))

C9_SyntheticOnlyAfterEveryRealTier ==
    (grun.path # "none" /\ grun.handed.src = "synthetic" /\ grun.handed.rows # <<>>)
        => /\ \E i \in DOMAIN grun.attempts : grun.attempts[i] = "opsd"
           /\ \E i \in DOMAIN grun.attempts : grun.attempts[i] = "entsoe"
           /\ Unavailable(grun.opsd)
           /\ Unavailable(grun.entsoe)

(***************************************************************************)
(* Claims about the scheduled jobs                                         *)
(***************************************************************************)
\* C6: every finished scheduled run that got a job id called start_job, then
\* the pipeline, then complete_job once, and its job record is completed
\* with the returned count when the pipeline returned and failed with the
\* exception's message when it raised: it is no longer running.
C6_ScheduledRunIsRecorded ==
    \A i \in DOMAIN done :
        done[i].job_id \in DOMAIN ingestion_log
            => /\ done[i].events = <<"start_job", "pipeline", "complete_job">>
               /\ completeCalls[done[i].job_id] = 1
               /\ IF done[i].raised
                  THEN /\ ingestion_log[done[i].job_id].status = "failed"
                       /\ ingestion_log[done[i].job_id].error_message = done[i].msg
                  ELSE /\ ingestion_log[done[i].job_id].status = "completed"
                       /\ ingestion_log[done[i].job_id].records_processed
                             = done[i].records

\* C7: a finished scheduled run whose write met an unreachable store got 0
\* from the write and its job record is failed with an error message.
C7_UnreachableStoreFailsJob ==
    \A i \in DOMAIN done :
        (done[i].job_id \in DOMAIN ingestion_log /\ done[i].writeFailed)
            => /\ done[i].records = 0
               /\ ingestion_log[done[i].job_id].status = "failed"
               /\ ingestion_log[done[i].job_id].error_message # NullText

(***************************************************************************)
(* Claims about the grid reconciler                                        *)
(***************************************************************************)
DataColumns(data) ==
    {data.cols[i] : i \in DOMAIN data.cols} \ {timestamp_cols[i] : i \in DOMAIN timestamp_cols}

\* C10: for a table with a timestamp column whose data columns are
\* fr_load_actual_entsoe_transparency and fr_solar_generation_actual, the
\* reconciler yields one FR row with load_actual_mw from the load column,
\* solar_generation_actual_mw from the solar column, every other
\* generation column 0 and total_generation_mw equal to the solar value.
C10_LoadAndSolarOnly ==
    (reconciled.done
       /\ DataColumns(raw) = {"fr_load_actual_entsoe_transparency",
                              "fr_solar_generation_actual"}
       /\ ColumnsAfterTimestamp(raw) # <<>>)
        => /\ Cardinality(reconciled.out) = 1
           /\ \A r \in reconciled.out :
                 /\ r.country_code = "FR"
                 /\ r.vals["load_actual_mw"]
                       = raw.row["fr_load_actual_entsoe_transparency"]
                 /\ r.vals["solar_generation_actual_mw"]
                       = raw.row["fr_solar_generation_actual"]
                 /\ r.vals["wind_onshore_generation_actual_mw"] = 0
                 /\ r.vals["wind_offshore_generation_actual_mw"] = 0
                 /\ r.vals["hydro_generation_actual_mw"] = 0
                 /\ r.vals["nuclear_generation_actual_mw"] = 0
                 /\ r.vals["fossil_generation_actual_mw"] = 0
                 /\ r.vals["other_renewable_generation_mw"] = 0
                 /\ r.vals["total_generation_mw"]
                       = raw.row["fr_solar_generation_actual"]

(***************************************************************************)
(* Claims about the household validator                                    *)
(***************************************************************************)
ReturnedFrom(i) == {j \in DOMAIN hh_out.rows : hh_out.rows[j].row_id = i}

\* C11: an input row with a timestamp whose global_active_power is outside
\* [0, 20] and whose voltage is in range is returned, with
\* global_active_power null, voltage unchanged and a quality score that
\* counts exactly that one missing required field.
C11_OutOfRangeIsNulledNotDropped ==
    hh_out.done
        => \A i \in DOMAIN hh_in :
              (/\ hh_in[i].timestamp # NaT
               /\ hh_in[i].global_active_power # NaN
               /\ ~Between(hh_in[i].global_active_power, 0, 20)
               /\ Between(hh_in[i].voltage, 200, 260)
               /\ hh_in[i].global_intensity # NaN)
                => /\ ReturnedFrom(i) # {}
                   /\ \A j \in ReturnedFrom(i) :
                         /\ hh_out.rows[j].global_active_power = NaN
                         /\ hh_out.rows[j].voltage = hh_in[i].voltage
                         /\ hh_out.rows[j].data_quality_score
                               = [num |-> 2, den |-> 3]

\* C12: every returned row has data_quality_score = 1 - nulls / 3 where
\* nulls counts the null cells among global_active_power, voltage and
\* global_intensity; the score lies in [0, 1] and is 1 exactly when none of
\* the three is null.
C12_QualityScore ==
    \A j \in DOMAIN hh_out.rows :
        LET r == hh_out.rows[j]
            nulls == Cardinality({c \in {"p", "v", "i"} :
                        \/ c = "p" /\ r.global_active_power = NaN
                        \/ c = "v" /\ r.voltage = NaN
                        \/ c = "i" /\ r.global_intensity = NaN})
        IN  /\ r.data_quality_score.den = 3
            /\ r.data_quality_score.num = 3 - nulls
            /\ 0 <= r.data_quality_score.num
            /\ r.data_quality_score.num <= r.data_quality_score.den
            /\ (r.data_quality_score.num = r.data_quality_score.den) <=> (nulls = 0)

C12_Witness ==
    /\ hh_out.done
    /\ \E j \in DOMAIN hh_out.rows :
          /\ hh_out.rows[j].global_intensity = NaN
          /\ hh_out.rows[j].data_quality_score = [num |-> 2, den |-> 3]
    /\ \E j \in DOMAIN hh_out.rows :
          hh_out.rows[j].data_quality_score = [num |-> 3, den |-> 3]

(***************************************************************************)
(* Claims about the weather ranges                                         *)
(***************************************************************************)
\* C13: every cell of the ranged column of every row stored in
\* weather.observations is null or within the declared range.
C13_StoredWeatherInRange ==
    \A i \in DOMAIN tables["weather"] :
        \/ tables["weather"][i].meas = NaN
        \/ /\ tables["weather"][i].meas >= humidity_min
           /\ tables["weather"][i].meas <= humidity_max

(***************************************************************************)
(* Claims about gap detection                                              *)
(***************************************************************************)
\* The hours of the window of the call, and those without a stored row.
WindowHours ==
    {t \in (gap_in.now - GapWindowHours * HalfHoursPerHour)..gap_in.now :
        t % HalfHoursPerHour = 0}
AbsentHours == WindowHours \ gap_in.stored

\* The maximal runs of consecutive absent hours.
AbsentRuns ==
    {[gap_start |-> a, gap_end |-> b,
      gap_hours |-> (b - a) \div HalfHoursPerHour + 1] :
        <<a, b>> \in {ab \in AbsentHours \X AbsentHours :
            /\ ab[1] <= ab[2]
            /\ \A t \in WindowHours : (ab[1] <= t /\ t <= ab[2]) => t \in AbsentHours
            /\ ab[1] - HalfHoursPerHour \notin AbsentHours
            /\ ab[2] + HalfHoursPerHour \notin AbsentHours}}

\* C14: get_data_gaps returns exactly the maximal runs of consecutive
\* absent hours of the window, each once, with its first and last absent
\* hour and its length in hours.
C14_GapsAreTheAbsentRuns ==
    gap_out.done
        => /\ {gap_out.gaps[i] : i \in DOMAIN gap_out.gaps} = AbsentRuns
           /\ Len(gap_out.gaps) = Cardinality(AbsentRuns)

(***************************************************************************)
(* Claims about the batches of the row-level upsert                        *)
(***************************************************************************)
\* The records of the batch written, and the upsert batch (1-based) a
\* record index belongs to; store call c + 1 applies upsert batch c.
WrittenBatch == LongBatch(up_in.dom, up_in.first, up_in.n, up_in.v)
UpsertBatchOf(i) == (i - 1) \div UpsertBatchSize(up_in.dom) + 1
ReachedUpsert == ViolatesPrimaryKey(up_in.tbl, WrittenBatch)

\* C15: in the row-level upsert, a batch that fails for another reason
\* than connectivity does not stop the call: every record of the other
\* batches is applied and the count returned is their number.
C15_BatchFailureDoesNotStopTheCall ==
    (/\ up_out.done /\ ReachedUpsert /\ up_out.failed
     /\ up_out.fault >= 2 /\ up_out.error # "OperationalError")
        => LET others == {i \in DOMAIN WrittenBatch : UpsertBatchOf(i) + 1 # up_out.fault}
           IN  /\ up_out.ret = Cardinality(others)
               /\ \A i \in others :
                      \E j \in DOMAIN up_out.tbl :
                          /\ Key(up_out.tbl[j]) = Key(WrittenBatch[i])
                          /\ up_out.tbl[j].meas = WrittenBatch[i].meas
                          /\ up_out.tbl[j].ingestion_timestamp = clock

(***************************************************************************)
(* Claims about the entry points of the pipelines                          *)
(***************************************************************************)
\* C16: the batch entry point of a domain pipeline returns a count and
\* never raises to the job that called it.
C16_EntryPointsNeverRaise ==
    \A i \in DOMAIN done :
        /\ ~done[i].raised
        /\ done[i].records \in Nat

(***************************************************************************)
(* Claims about the end of streaming                                       *)
(***************************************************************************)
Stopped == phase # "idle" /\ ~is_running /\ stop_time > 0

StoredRecord(rec) ==
    \E j \in DOMAIN tables[rec.type] : Key(tables[rec.type][j]) = Key(rec.record)

\* C17: once the stop signal is given no coroutine waits out its polling
\* interval (none is still alive a minute later), and when start_streaming
\* has returned every record accepted into the buffer is in the store.
C17_StopIsPromptAndFlushes ==
    /\ (Stopped /\ clock > stop_time) => \A l \in Loops : loops[l].pc = "done"
    /\ (Stopped /\ phase = "exited") => \A rec \in accepted : StoredRecord(rec)

(***************************************************************************)
(* Claims about the OPSD fetch                                             *)
(***************************************************************************)
ParseOrder == <<"gzip", "plain", "utf8">>
ParseOutcome(o, step) ==
    CASE step = "gzip" -> o.gzip [] step = "plain" -> o.plain [] step = "utf8" -> o.utf8

\* C18: for every URL whose payload was received, the parses made are
\* gzip, plain, utf8 in that order up to the first that succeeds: a parse
\* that fails, whatever it raises, is followed by the next one.
C18_ParseAttemptsInOrder ==
    opsd_out.done =>
        \A u \in DOMAIN opsd_out.trace :
            opsd_in[u].get = "ok" =>
                LET parses == Tail(opsd_out.trace[u])
                IN  /\ IsPrefix(parses, ParseOrder)
                    /\ parses # <<>>
                    /\ \A k \in DOMAIN parses :
                          k < Len(parses) => ParseOutcome(opsd_in[u], parses[k]) # "ok"
                    /\ \/ ParseOutcome(opsd_in[u], parses[Len(parses)]) = "ok"
                       \/ Len(parses) = Len(ParseOrder)

(***************************************************************************)
(* Claims about the column mapping and the derived columns                 *)
(***************************************************************************)
ReconciledColumns == ColumnsAfterTimestamp(raw)
RowsOf(country) == {r \in reconciled.out : r.country_code = country}

\* Some column of the table can be mapped for the country, by name, by the
\* fuzzy test or by the flexible pass.
Mappable(country) ==
    \/ \E k \in DOMAIN column_mappings(country), j \in DOMAIN ReconciledColumns :
          \/ ReconciledColumns[j] = column_mappings(country)[k][1]
          \/ FuzzyMatch(country, ReconciledColumns[j], column_mappings(country)[k][1])
    \/ \E j \in DOMAIN ReconciledColumns : FlexibleTarget(country, ReconciledColumns[j]) # "none"

\* C19: for every mapping key the target column holds the column of that
\* exact name when the table has one, else the first table column that
\* passes the fuzzy test; a country with no mapped column has no row in the
\* reconciled table, and every other country of the table has its row.
C19_ExactBeforeFuzzyAndUnmappedDropped ==
    reconciled.done =>
        \A country \in CountriesOf(ReconciledColumns) :
            IF ~Mappable(country) THEN RowsOf(country) = {}
            ELSE /\ Cardinality(RowsOf(country)) = 1
                 /\ \A r \in RowsOf(country), k \in DOMAIN column_mappings(country) :
                       LET opsd_col == column_mappings(country)[k][1]
                           our_col == column_mappings(country)[k][2]
                           fuzzy == {j \in DOMAIN ReconciledColumns :
                                       FuzzyMatch(country, ReconciledColumns[j], opsd_col)}
                       IN  IF InSeq(opsd_col, ReconciledColumns)
                           THEN r.vals[our_col] = raw.row[opsd_col]
                           ELSE \A j \in fuzzy :
                                   (\A i \in fuzzy : j <= i)
                                       => r.vals[our_col] = raw.row[ReconciledColumns[j]]

C19_Witness ==
    /\ reconciled.done
    /\ raw.cols = <<"fr_solar_generation_actual", "fr_load_actual_entsoe_transparency",
                    "IT_capacity">>
    /\ raw.row["fr_solar_generation_actual"] = 7
    /\ CountriesOf(ReconciledColumns) = {"FR", "IT"}
    /\ RowsOf("IT") = {}
    /\ \E r \in RowsOf("FR") :
          /\ r.vals["load_actual_mw"] = 100
          /\ r.vals["wind_onshore_generation_actual_mw"] = 7

\* A null cell counts for nothing in a sum.
Present(v) == IF v = NaN THEN 0 ELSE v

\* C20: in every reconciled row total_generation_mw is the sum of the seven
\* generation columns of the row and net_import_export_mw is
\* total_generation_mw minus load_actual_mw (null when the load is null).
C20_DerivedColumns ==
    \A r \in reconciled.out :
        /\ r.vals["total_generation_mw"]
              = Present(r.vals["solar_generation_actual_mw"])
                + Present(r.vals["wind_onshore_generation_actual_mw"])
                + Present(r.vals["wind_offshore_generation_actual_mw"])
                + Present(r.vals["hydro_generation_actual_mw"])
                + Present(r.vals["nuclear_generation_actual_mw"])
                + Present(r.vals["fossil_generation_actual_mw"])
                + Present(r.vals["other_renewable_generation_mw"])
        /\ r.vals["net_import_export_mw"]
              = IF r.vals["load_actual_mw"] = NaN THEN NaN
                ELSE r.vals["total_generation_mw"] - r.vals["load_actual_mw"]

C20_Witness ==
    /\ reconciled.done
    /\ \E r \in reconciled.out :
          /\ r.vals["solar_generation_actual_mw"] = NaN
          /\ r.vals["wind_onshore_generation_actual_mw"] = 100
          /\ r.vals["total_generation_mw"] = 500
          /\ r.vals["load_actual_mw"] = 100
          /\ r.vals["net_import_export_mw"] = 400

(***************************************************************************)
(* Claims about the gap fill                                               *)
(***************************************************************************)
Fillable(gap) == gap.gap_hours <= max_gap_days * HoursPerDay
FillableGaps == {i \in DOMAIN fill_in.gaps : Fillable(fill_in.gaps[i])}

\* C21: fill_data_gaps makes one fetch per gap under the threshold, for
\* that gap's interval; no hour outside [gap_start, gap_end] of such a gap
\* is fetched or written, and nothing is fetched or written for a gap over
\* the threshold.
C21_FillsExactlyTheGaps ==
    fill_out.done =>
        /\ Len(fill_out.requests) = Cardinality(FillableGaps)
        /\ \A k \in DOMAIN fill_out.requests :
              \E i \in FillableGaps :
                  /\ fill_out.requests[k].start_time = fill_in.gaps[i].gap_start
                  /\ fill_out.requests[k].end_time = fill_in.gaps[i].gap_end
                  /\ \A t \in fill_out.requests[k].fetched :
                        fill_in.gaps[i].gap_start <= t /\ t <= fill_in.gaps[i].gap_end
        /\ \A j \in DOMAIN fill_out.tbl :
              \E i \in FillableGaps :
                  /\ fill_in.gaps[i].gap_start <= fill_out.tbl[j].timestamp
                  /\ fill_out.tbl[j].timestamp <= fill_in.gaps[i].gap_end

(***************************************************************************)
(* Claims about the weather backfill                                       *)
(***************************************************************************)
\* The sub-ranges of a backfill, in the order of their first request.
RequestsOf(location_id) ==
    SelectSeq(hist_out.requests, LAMBDA q : q.location_id = location_id)
SubRanges == RequestsOf(WeatherStreamLocations[1])

\* C22: the backfill of [start, end], start < end, makes its requests for
\* consecutive sub-ranges of at most 30 days, in increasing time order and
\* without overlap, which together hold every hour of [start, end]; every
\* sub-range is requested once for each location.
C22_ChunksCoverTheRange ==
    hist_out.done =>
        /\ \A k \in DOMAIN SubRanges :
              /\ SubRanges[k].start_time <= SubRanges[k].end_time
              /\ SubRanges[k].end_time - SubRanges[k].start_time <= chunk_days * HoursPerDay
              /\ k > 1 => SubRanges[k - 1].end_time < SubRanges[k].start_time
        /\ \A t \in hist_in.start_date..hist_in.end_date :
              \E k \in DOMAIN SubRanges :
                  SubRanges[k].start_time <= t /\ t <= SubRanges[k].end_time
        /\ \A i \in DOMAIN WeatherStreamLocations :
              /\ Len(RequestsOf(WeatherStreamLocations[i])) = Len(SubRanges)
              /\ \A k \in DOMAIN SubRanges :
                    /\ RequestsOf(WeatherStreamLocations[i])[k].start_time = SubRanges[k].start_time
                    /\ RequestsOf(WeatherStreamLocations[i])[k].end_time = SubRanges[k].end_time

WrittenFor(i) ==
    Cardinality({j \in DOMAIN loc_out.tbl :
                    /\ loc_out.tbl[j].entity = WeatherStreamLocations[i]
                    /\ loc_out.tbl[j].ingestion_timestamp = IngestNow})

RECURSIVE SumWrittenOk(_)
SumWrittenOk(i) ==
    IF i > Len(WeatherStreamLocations) THEN 0
    ELSE (IF loc_in.outcomes[i] = "ok" THEN WrittenFor(i) ELSE 0) + SumWrittenOk(i + 1)

\* C24: in one weather run, whatever the other locations met (an empty
\* fetch, a failed validation, an exception, a refused write), every
\* location that meets no failure has all its fetched rows written, and the
\* count returned is the sum of the rows written for those locations.
C24_LocationsAreIsolated ==
    loc_out.done =>
        /\ \A i \in DOMAIN WeatherStreamLocations :
              loc_in.outcomes[i] = "ok" =>
                  WrittenFor(i) = Cardinality(RequestedHours(IngestNow - HoursPerDay, IngestNow))
        /\ loc_out.ret = SumWrittenOk(1)

C24_Witness ==
    /\ loc_out.done
    /\ loc_in.outcomes = <<"raises", "ok", "write_fails">>
    /\ loc_in.seeded
    /\ loc_out.ret = 2 * HoursPerDay

(***************************************************************************)
(* Claims about the order of the scheduled jobs                            *)
(***************************************************************************)
\* Jobs whose start_job has returned an id and whose complete_job has not
\* been called yet.
OpenJobs == {id \in DOMAIN completeCalls : completeCalls[id] = 0}

\* C25: at most one scheduled job is between its start_job and its
\* complete_job, and when the scheduler takes the next due job every job
\* before it has gone through start_job, its pipeline and complete_job.
C25_JobsNeverOverlap ==
    /\ Cardinality(OpenJobs) <= 1
    /\ pc = "idle" => OpenJobs = {}
    /\ \A k \in DOMAIN done : done[k].events = <<"start_job", "pipeline", "complete_job">>

C25_Witness ==
    /\ Len(done) = 2
    /\ done[1].dom # done[2].dom
    /\ done[1].job_id # -1 /\ done[2].job_id # -1
    /\ pc = "idle"

(***************************************************************************)
(* Claims about weather validation over several columns                    *)
(***************************************************************************)
\* Whether the cell of row i, column c of the input passes range checking.
ValidCell(i, c) ==
    /\ wv_in[i].cells[c] # NaN
    /\ c \in DOMAIN WEATHER_VALIDATION_RANGES =>
          /\ wv_in[i].cells[c] >= WEATHER_VALIDATION_RANGES[c][1]
          /\ wv_in[i].cells[c] <= WEATHER_VALIDATION_RANGES[c][2]

KeptRows == {i \in DOMAIN wv_in : \E c \in weather_cols : ValidCell(i, c)}

OutRow(i) == CHOOSE r \in {wv_out.data[k] : k \in DOMAIN wv_out.data} : r.timestamp = i

\* C26: the rows of the result are, in the order of the input, the input
\* rows with at least one cell that passes range checking; a cell that
\* passes is unchanged, any other cell of a kept row holds the valid cell of
\* the nearest kept row before it, else of the nearest kept row after it,
\* else null.
C26_RowsWithAValidCellAreKept ==
    wv_out.done =>
        /\ {wv_out.data[k].timestamp : k \in DOMAIN wv_out.data} = KeptRows
        /\ \A k \in DOMAIN wv_out.data :
              k > 1 => wv_out.data[k - 1].timestamp < wv_out.data[k].timestamp
        /\ \A i \in KeptRows, c \in weather_cols :
              LET before == {j \in KeptRows : j < i /\ ValidCell(j, c)}
                  after == {j \in KeptRows : j > i /\ ValidCell(j, c)}
                  Max(S) == CHOOSE x \in S : \A y \in S : y <= x
                  Min1(S) == CHOOSE x \in S : \A y \in S : x <= y
              IN  OutRow(i).cells[c] =
                      IF ValidCell(i, c) THEN wv_in[i].cells[c]
                      ELSE IF before # {} THEN wv_in[Max(before)].cells[c]
                      ELSE IF after # {} THEN wv_in[Min1(after)].cells[c]
                      ELSE NaN

\* Row 2 has one cell in range and one out of range; the out-of-range cell
\* is filled from row 1, and row 3, all null after range checking, is gone.
C26_Witness ==
    /\ wv_out.done
    /\ Len(wv_in) = 3
    /\ wv_in[2].cells["temperature_2m_c"] = 2
    /\ wv_in[2].cells["relative_humidity_2m_pct"] = humidity_max + 2
    /\ wv_in[1].cells["relative_humidity_2m_pct"] = 1
    /\ wv_in[3].cells["dew_point_2m_c"] = NaN
    /\ Len(wv_out.data) = 2
    /\ wv_out.data[2].cells["relative_humidity_2m_pct"] = 1

(***************************************************************************)
(* Claims about the count a writer returns                                 *)
(***************************************************************************)
\* Records of the batch the call has put in the store: the row of their key
\* holds their measurement and the time of the call.
PersistedRecords ==
    {i \in DOMAIN WrittenBatch :
        \E j \in DOMAIN up_out.tbl :
            /\ Key(up_out.tbl[j]) = Key(WrittenBatch[i])
            /\ up_out.tbl[j].meas = WrittenBatch[i].meas
            /\ up_out.tbl[j].ingestion_timestamp = clock}

\* C27: the count a writer call returns is the number of records of its
\* batch that the call has put in the store; a call that returns 0 has
\* stored none.
C27_CountIsWhatIsStored ==
    up_out.done => up_out.ret = Cardinality(PersistedRecords)

(***************************************************************************)
(* Claims about what leaves the streaming buffer                           *)
(***************************************************************************)
InBuffer(rec) == \E k \in DOMAIN batch_buffer : batch_buffer[k] = rec

\* C28: a record accepted into the buffer is in the buffer until it is in
\* the store: at every moment of streaming each accepted record is still
\* buffered or is stored.
C28_BufferedUntilPersisted ==
    \A rec \in accepted : InBuffer(rec) \/ StoredRecord(rec)

(***************************************************************************)
(* Claims about where the reconciled columns come from                     *)
(***************************************************************************)
\* Columns of grid.operations in TABLE_DEFINITIONS.
grid_operations_columns ==
    {"timestamp", "country_code", "region_code", "load_actual_mw", "load_forecast_mw",
     "solar_generation_actual_mw", "wind_onshore_generation_actual_mw",
     "wind_offshore_generation_actual_mw", "hydro_generation_actual_mw",
     "nuclear_generation_actual_mw", "fossil_generation_actual_mw",
     "other_renewable_generation_mw", "total_generation_mw", "net_import_export_mw",
     "carbon_intensity_g_co2_kwh", "price_day_ahead_eur_mwh", "data_quality_flags",
     "ingestion_timestamp", "source"}

\* The pairs <<table column, canonical column>> of the assignments made for
\* a country: by the mapping keys, or by the flexible pass when no key
\* matched.
Feeds(country) ==
    LET byKey == {<<MatchedColumn(country, ReconciledColumns, column_mappings(country)[k][1]),
                    column_mappings(country)[k][2]>> : k \in DOMAIN column_mappings(country)}
        mapped == {f \in byKey : f[1] # "none"}
        flexible == {<<ReconciledColumns[j], FlexibleTarget(country, ReconciledColumns[j])>> :
                        j \in DOMAIN ReconciledColumns}
    IN  IF mapped # {} THEN mapped ELSE {f \in flexible : f[2] # "none"}

\* C29: for every row of the reconciled table, each table column assigned
\* to a canonical column starts with the prefix of the row's country, no
\* table column is assigned to two canonical columns, and every column of
\* the row is a column of grid.operations.
C29_SourcesBelongToTheEntity ==
    reconciled.done =>
        \A r \in reconciled.out :
            /\ \A f \in Feeds(r.country_code) :
                  StartsWith(Upper(f[1]), Upper(r.country_code) \o "_")
            /\ \A f, g \in Feeds(r.country_code) : f[1] = g[1] => f[2] = g[2]
            /\ DOMAIN r.vals \subseteq grid_operations_columns

(***************************************************************************)
(* Claims about the job record of a scheduled execution                    *)
(***************************************************************************)
\* C30: every execution of a domain pipeline on the scheduled path has its
\* own job record: a pipeline that has run, in the current job or in a
\* finished one, was started under the id of a record of the log, and no
\* two executions share a record.
C30_NoUntrackedExecution ==
    /\ pc = "ran" => cur.job_id \in DOMAIN ingestion_log
    /\ \A k \in DOMAIN done :
          InSeq("pipeline", done[k].events) =>
              /\ done[k].job_id \in DOMAIN ingestion_log
              /\ \A j \in DOMAIN done : j # k => done[j].job_id # done[k].job_id

=============================================================================
